---------------------------- MODULE Spec2Model ----------------------------
(***************************************************************************)
(* Model of the access terminal firmware (the Arduino sketch in            *)
(* src/ESP32/esp_client/esp_client.ino, lines 381-2173): the control loop, *)
(* the mode dispatcher and its modes, the host protocol codec, the door    *)
(* automaton and the indicator scheduler.                                  *)
(*                                                                         *)
(* Text is a sequence of one-character strings.  A C string buffer is      *)
(* modelled by the text before its first NUL.                              *)
(*                                                                         *)
(* Time.  The code keeps millis() stamps and compares elapsed times.  A    *)
(* stamp variable X holds here the elapsed time millis() - X, saturated    *)
(* above the largest value X is compared with, or NoStamp where the code   *)
(* holds 0 in a variable that it tests against 0.  A deadline variable     *)
(* (X = millis() + d) holds the time remaining, X - millis(), saturated    *)
(* below once it has passed.  The 49-day wrap of millis() is not modelled. *)
(***************************************************************************)
EXTENDS Integers, Sequences, FiniteSets, TLC

(***************************************************************************)
(* Program constants                                                       *)
(***************************************************************************)
DEBOUNCE_DELAY == 50
LONG_PRESS_DURATION == 2000
MENU_ENTRY_DURATION == 5000
POST_ENTRY_DELAY == 2000
SERIAL_TIMEOUT == 5000
SCAN_DISPLAY_TIME == 3000
MENU_SIZE == 3
SETTINGS_MENU_SIZE == 2
MAX_GLOBAL_BUFFER_SIZE == 128
MAX_EXTRACT_BUFFER == 64
MAX_NAME_SIZE == 32
CHAR_SCROLL_DELAY == 150
DOOR_RELOCK_DELAY == 3000
REJECT_PULSE == 1000
DOUBLE_BEEP_GAP == 250
DOUBLE_BEEP_TONE == 150
WIFI_BLINK_PERIOD == 1000
CANCEL_DELAY == 500
LOOP_DELAY == 10
WIFI_SSID_SIZE == 28
WIFI_PASS_SIZE == 28
WIFI_BUFF_SIZE == 33
NET_NAME_SIZE == 17
MAX_NETS == 3
SEARCH_KEY_SIZE == 32
USERNAME_SIZE == 32
ACTION_SIZE == 8
TIME_SIZE == 16
LCD_LINE_SIZE == 17

LOW == "LOW"
HIGH == "HIGH"
Level == {LOW, HIGH}

(***************************************************************************)
(* Bounds of the model                                                     *)
(***************************************************************************)
\* Time between the starts of two iterations of loop() (the code's own
\* delay is LOOP_DELAY; the rest is the time the iteration's I/O takes).
LoopPeriod == 1000
\* Most bytes waiting in the UART receive queue when the host sends more.
MaxRx == 0

NoStamp == 0 - 1

Min(a, b) == IF a < b THEN a ELSE b
Max(a, b) == IF a > b THEN a ELSE b

\* millis() - X for a stamp X, d later; saturated at cap.
Later(t, d, cap) == IF t = NoStamp THEN NoStamp ELSE Min(t + d, cap)
\* X - millis() for a deadline X, d later; saturated at floor.
Nearer(t, d, floor) == IF t = NoStamp THEN NoStamp ELSE Max(t - d, floor)
\* millis() - X where the code may hold 0 in X: the time since power-up.
Since(t) == IF t = NoStamp THEN MENU_ENTRY_DURATION + 1 ELSE t

(***************************************************************************)
(* Text                                                                    *)
(***************************************************************************)
Take(s, n) == IF n <= 0 THEN << >> ELSE SubSeq(s, 1, Min(n, Len(s)))

\* strstr: the 0-based offset of the first occurrence of n in h, or -1.
StrStrPos(h, n) ==
  LET hits == {i \in 0..(Len(h) - Len(n)) : SubSeq(h, i + 1, i + Len(n)) = n}
  IN IF hits = {} THEN 0 - 1 ELSE CHOOSE i \in hits : \A j \in hits : i <= j

StrStr(h, n) == StrStrPos(h, n) >= 0

\* strchr from offset `from` (0-based): offset of the first c, or -1.
StrChrFrom(h, from, c) ==
  LET hits == {i \in from..(Len(h) - 1) : h[i + 1] = c}
  IN IF hits = {} THEN 0 - 1 ELSE CHOOSE i \in hits : \A j \in hits : i <= j

\* strncpy(dst, src, n - 1); dst[n - 1] = 0
StrNCpy(src, n) == Take(src, n - 1)

\* buf[idx] = c; buf[idx + 1] = 0 on a buffer whose string is buf.
PutChar(buf, idx, c) ==
  IF idx <= Len(buf) THEN Append(SubSeq(buf, 1, idx), c) ELSE buf

HexDigits == <<"0", "1", "2", "3", "4", "5", "6", "7",
               "8", "9", "A", "B", "C", "D", "E", "F">>

\* sprintf(buf + 2 * i, "%02X", uidByte[i]) for each byte of the uid
RECURSIVE UidHex(_)
UidHex(uid) ==
  IF uid = << >> THEN << >>
  ELSE <<HexDigits[(Head(uid) \div 16) + 1], HexDigits[(Head(uid) % 16) + 1]>>
       \o UidHex(Tail(uid))

CHAR_TABLE ==
  <<"*", "A", "B", "C", "D", "E", "F", "G", "H", "I", "J", "K", "L", "M",
    "N", "O", "P", "Q", "R", "S", "T", "U", "V", "W", "X", "Y", "Z",
    "a", "b", "c", "d", "e", "f", "g", "h", "i", "j", "k", "l", "m",
    "n", "o", "p", "q", "r", "s", "t", "u", "v", "w", "x", "y", "z",
    "!", "@", "#", "$", "%", "^", "&", "*",
    "0", "1", "2", "3", "4", "5", "6", "7", "8", "9", " ">>
CHAR_TABLE_SIZE == Len(CHAR_TABLE)
\* CHAR_TABLE[i] with the code's 0-based index
CharAt(i) == CHAR_TABLE[i + 1]

(***************************************************************************)
(* Host protocol codec                                                     *)
(***************************************************************************)
Q == "\""
Quoted(s) == <<Q>> \o s \o <<Q>>
\* Serial.print(F(", \"key\":\"")); Serial.print(v); Serial.print(F("\""))
JsonField(key, v) == <<",", " ">> \o Quoted(key) \o <<":">> \o Quoted(v)

NoText == << >>

\* sendSerialJson: the line written to the host.  An absent (NULL) or empty
\* id, un, ut, tm is NoText; an absent opt is NoText.
SendSerialJson(md, id, un, ut, opt, tm) ==
  <<"{">> \o Quoted(<<"m", "d">>) \o <<":">> \o Quoted(md)
  \o (IF id # NoText THEN JsonField(<<"i", "d">>, id) ELSE << >>)
  \o (IF un # NoText THEN JsonField(<<"u", "n">>, un) ELSE << >>)
  \o (IF ut # NoText THEN JsonField(<<"u", "t">>, ut) ELSE << >>)
  \o (IF opt # NoText THEN JsonField(<<"o", "p", "t">>, opt) ELSE << >>)
  \o (IF tm # NoText THEN JsonField(<<"t", "m">>, tm) ELSE << >>)
  \o <<"}", "\r", "\n">>

\* sendWifiJson
SendWifiJson(ssid, pass) ==
  <<"{">> \o Quoted(<<"m", "d">>) \o <<":">> \o Quoted(<<"w", "i", "f", "i">>)
  \o <<",">> \o Quoted(<<"S", "S", "I", "D">>) \o <<":">> \o Quoted(ssid)
  \o <<",">> \o Quoted(<<"P", "A", "S", "S">>) \o <<":">> \o Quoted(pass)
  \o <<"}", "\r", "\n">>

\* strrchr: offset of the last c at or after offset `from`, or -1.
StrRChrFrom(h, from, c) ==
  LET hits == {i \in from..(Len(h) - 1) : h[i + 1] = c}
  IN IF hits = {} THEN 0 - 1 ELSE CHOOSE i \in hits : \A j \in hits : i >= j

\* A decoder that takes the value up to the last quote of the line.
ExtractValueToLastQuote(buffer, key, resultSize) ==
  LET searchKey == Take(Quoted(key) \o <<":", Q>>, SEARCH_KEY_SIZE - 1)
      at == StrStrPos(buffer, searchKey)
      start == at + Len(searchKey)
      end == IF at < 0 THEN 0 - 1 ELSE StrRChrFrom(buffer, start, Q)
  IN IF at >= 0 /\ end >= 0 /\ (end - start) < resultSize
     THEN [found |-> TRUE, value |-> SubSeq(buffer, start + 1, end)]
     ELSE [found |-> FALSE, value |-> << >>]

\* extractValue: [found, value]; found = FALSE is the code's NULL, and the
\* result buffer is then left as it was.
ExtractValue(buffer, key, resultSize) ==
  LET searchKey == Take(Quoted(key) \o <<":", Q>>, SEARCH_KEY_SIZE - 1)
      at == StrStrPos(buffer, searchKey)
      start == at + Len(searchKey)
      end == IF at < 0 THEN 0 - 1 ELSE StrChrFrom(buffer, start, Q)
  IN IF at >= 0 /\ end >= 0 /\ (end - start) < resultSize
     THEN [found |-> TRUE, value |-> SubSeq(buffer, start + 1, end)]
     ELSE [found |-> FALSE, value |-> << >>]

KeyRslt == <<"r", "s", "l", "t">>
\* the pattern "rslt":"v" the modes look for with strstr
RsltIs(v) == Quoted(KeyRslt) \o <<":">> \o Quoted(v)


(***************************************************************************)
(* State.  g: the globals (and the statics of indicatorUpdate); auth,      *)
(* scan, add, del, cfg: the function statics of handleAuthentication,      *)
(* mainCardScan, addUser, deleteUser and settings; io: the outputs (pins,  *)
(* display, the lines written to the host and the tones started in the     *)
(* current iteration); rx: the bytes waiting in the UART receive queue;     *)
(* gw: the globals, the lines and the outputs of the ESP32 gateway.         *)
(***************************************************************************)
VARIABLES g, auth, scan, add, del, cfg, io, rx, obs, gw

vars == <<g, auth, scan, add, del, cfg, io, rx, obs, gw>>

\* The machine state as one value, for the operators that model functions.
\* obs is no state of the program: it records what an observer of the
\* terminal has seen (the pins read by the last iteration, how long Up and
\* Select have been held in Idle, the time since the last request while the
\* host and the operator stayed quiet, the bytes read since that request).
Machine == [g |-> g, auth |-> auth, scan |-> scan, add |-> add, del |-> del,
            cfg |-> cfg, io |-> io, rx |-> rx, obs |-> obs]

menuItems == <<"1. Add User", "2. Delete User", "3. Settings">>
settingsMenuItems == <<"1. Set Timer", "2. WiFi     ">>

\* A display line is a sequence of strings: fixed text as one string,
\* buffer content character by character.
Screen(l1, l2) == <<l1, l2>>
Msg(a, b) == Screen(<<a>>, IF b = "" THEN << >> ELSE <<b>>)

\* printScreen; the observer of the display notes the time a new content
\* is written.
PrintScreen(m, scr) ==
  [m EXCEPT !.io.lcd = scr,
            !.obs.shown = IF m.obs.probe = "screen" /\ scr # m.io.lcd THEN 0 ELSE @]

\* tone(BUZZER_PIN, 2000, 150)
Tone(m) == [m EXCEPT !.io.tones = @ + 1]

\* The operation tag of a request line.
KindOf(line) == ExtractValue(line, <<"m", "d">>, MAX_EXTRACT_BUFFER).value

\* What the observer of the requests notes when a line is written: its
\* tag, and whether it repeats the tag of the line before with no act of
\* the operator in between.
Resent(o, line) ==
  IF o.probe = "retry"
  THEN [o EXCEPT !.repeat = o.quiet /\ o.lastKind = KindOf(line),
                 !.lastKind = KindOf(line),
                 !.quiet = TRUE]
  ELSE o

\* Serial.print of one request line
SerialSend(m, line) ==
  [m EXCEPT !.io.tx = Append(@, line),
            !.obs = [Resent(@, line) EXCEPT !.sinceRequest = 0,
                                            !.replyBytes = << >>]]

\* delay(d): time passes inside the iteration.
Advance(m, d) ==
  [m EXCEPT
     !.g.lastDebounceTime = Later(@, d, DEBOUNCE_DELAY + 1),
     !.g.selectPressStart = Later(@, d, LONG_PRESS_DURATION),
     !.g.entryPressStart = Later(@, d, MENU_ENTRY_DURATION),
     !.g.menuEntryTime = Later(@, d, POST_ENTRY_DELAY),
     !.g.doorLockTimer = Nearer(@, d, 0),
     !.g.doubleBeepTimer = Nearer(@, d, 0),
     !.g.rejectLedEndTime = Nearer(@, d, 0 - 1),
     !.g.wifiTimer = Later(@, d, WIFI_BLINK_PERIOD + 1),
     !.auth.authStartTime = Later(@, d, SERIAL_TIMEOUT + 1),
     !.auth.authSelectPressStart = Later(@, d, LONG_PRESS_DURATION),
     !.scan.transactionStartTime = Later(@, d, SERIAL_TIMEOUT + 1),
     !.add.lastCharUpdateTime = Later(@, d, CHAR_SCROLL_DELAY + 1),
     !.cfg.lastCharUpdateTime = Later(@, d, CHAR_SCROLL_DELAY + 1),
     !.cfg.scanStart = Later(@, d, SERIAL_TIMEOUT + 1),
     !.cfg.wifiTxTime = Later(@, d, SERIAL_TIMEOUT + 1),
     !.obs.idleHold = Later(@, d, MENU_ENTRY_DURATION),
     !.obs.hold = Later(@, d, MENU_ENTRY_DURATION),
     !.obs.holdDue = @ \/ (m.obs.hold # NoStamp /\ m.obs.hold < MENU_ENTRY_DURATION
                            /\ m.obs.hold + d >= MENU_ENTRY_DURATION),
     !.obs.upActed = Later(@, d, DEBOUNCE_DELAY),
     !.obs.selHeld = Later(@, d, LONG_PRESS_DURATION),
     !.obs.shown = Later(@, d, SCAN_DISPLAY_TIME),
     !.obs.sinceReply = Later(@, d, SCAN_DISPLAY_TIME),
     !.obs.sinceArmed = Later(@, d, DOOR_RELOCK_DELAY + LoopPeriod),
     !.obs.sinceSwitch = Later(@, d, POST_ENTRY_DELAY),
     !.obs.sinceTone = Later(@, d, DOUBLE_BEEP_GAP),
     !.obs.sinceLink = Later(@, d, WIFI_BLINK_PERIOD + LOOP_DELAY + 1),
     !.obs.sinceRequest = Later(@, d, SERIAL_TIMEOUT + SCAN_DISPLAY_TIME + 1)]

(***************************************************************************)
(* Indicators and door                                                     *)
(***************************************************************************)
BeepOnce(m) == Tone(m)

\* A double beep whose second tone is due at once.
BeepTwiceNoGap(m) ==
  [Tone(m) EXCEPT !.g.doubleBeepTimer = 0,
                  !.g.doubleBeepStage = FALSE,
                  !.g.doubleBeepActive = TRUE]

BeepTwice(m) ==
  [Tone(m) EXCEPT !.g.doubleBeepTimer = DOUBLE_BEEP_GAP,
                  !.g.doubleBeepStage = FALSE,
                  !.g.doubleBeepActive = TRUE]

PulseAccept(m) ==
  [m EXCEPT !.io.accept = HIGH,
            !.g.doorForceUnlock = TRUE,
            !.g.doorOpened = FALSE,
            !.g.doorLockTimer = NoStamp]

\* A reject pulse that also unlocks the door.
PulseRejectUnlocks(m) ==
  [m EXCEPT !.io.reject = HIGH, !.g.rejectLedEndTime = REJECT_PULSE,
            !.g.doorForceUnlock = TRUE]

PulseReject(m) ==
  [m EXCEPT !.io.reject = HIGH, !.g.rejectLedEndTime = REJECT_PULSE]

DoubleBeepUpdate(m) ==
  IF ~m.g.doubleBeepActive THEN m
  ELSE IF ~m.g.doubleBeepStage /\ m.g.doubleBeepTimer <= 0
       THEN [Tone(m) EXCEPT !.g.doubleBeepStage = TRUE,
                            !.g.doubleBeepTimer = DOUBLE_BEEP_TONE]
       ELSE IF m.g.doubleBeepStage /\ m.g.doubleBeepTimer <= 0
            THEN [m EXCEPT !.g.doubleBeepActive = FALSE]
            ELSE m

RejectLedUpdate(m) ==
  IF m.g.rejectLedEndTime < 0 THEN [m EXCEPT !.io.reject = LOW] ELSE m

\* A blink that changes phase as soon as the period is reached.
WifiLedUpdateEarly(m, wifiPin) ==
  IF wifiPin = LOW
  THEN [m EXCEPT !.g.wifiConnected = TRUE, !.io.wifiLed = HIGH,
                 !.g.wifiTimer = 0, !.g.wifiBlink = TRUE]
  ELSE LET toggle == m.g.wifiTimer >= WIFI_BLINK_PERIOD
           blink == IF toggle THEN ~m.g.wifiBlink ELSE m.g.wifiBlink
       IN [m EXCEPT !.g.wifiConnected = FALSE,
                    !.g.wifiTimer = IF toggle THEN 0 ELSE @,
                    !.g.wifiBlink = blink,
                    !.io.wifiLed = IF blink THEN HIGH ELSE LOW]

\* wifiPin is digitalRead(WIFI_STATUS_PIN): LOW while the link is up.
WifiLedUpdate(m, wifiPin) ==
  IF wifiPin = LOW
  THEN [m EXCEPT !.g.wifiConnected = TRUE, !.io.wifiLed = HIGH,
                 !.g.wifiTimer = 0, !.g.wifiBlink = TRUE]
  ELSE LET toggle == m.g.wifiTimer > WIFI_BLINK_PERIOD
           blink == IF toggle THEN ~m.g.wifiBlink ELSE m.g.wifiBlink
       IN [m EXCEPT !.g.wifiConnected = FALSE,
                    !.g.wifiTimer = IF toggle THEN 0 ELSE @,
                    !.g.wifiBlink = blink,
                    !.io.wifiLed = IF blink THEN HIGH ELSE LOW]

IndicatorUpdate(m, wifiPin) ==
  WifiLedUpdate(RejectLedUpdate(DoubleBeepUpdate(m)), wifiPin)

\* A door taken as opened whatever the sensor reads.
DoorSeeOpenAnyway(m, reed) ==
  IF ~m.g.doorOpened THEN [m EXCEPT !.g.doorOpened = TRUE] ELSE m

\* if (!doorOpened && reedState == LOW) doorOpened = true;
DoorSeeOpen(m, reed) ==
  IF ~m.g.doorOpened /\ reed = LOW THEN [m EXCEPT !.g.doorOpened = TRUE] ELSE m

\* A deadline armed by a closed door that was never seen open.
DoorArmAtOnce(m, reed) ==
  IF reed = HIGH /\ m.g.doorLockTimer = NoStamp
  THEN [m EXCEPT !.g.doorLockTimer = DOOR_RELOCK_DELAY]
  ELSE m

\* if (doorOpened && reedState == HIGH) if (doorLockTimer == 0) arm
DoorArm(m, reed) ==
  IF m.g.doorOpened /\ reed = HIGH /\ m.g.doorLockTimer = NoStamp
  THEN [m EXCEPT !.g.doorLockTimer = DOOR_RELOCK_DELAY]
  ELSE m

\* A relock that clears the flag and leaves the actuator as it is.
DoorRelockFlagOnly(m) ==
  IF m.g.doorLockTimer # NoStamp /\ m.g.doorLockTimer <= 0
  THEN [m EXCEPT !.g.doorForceUnlock = FALSE,
                 !.g.doorOpened = FALSE,
                 !.g.doorLockTimer = NoStamp]
  ELSE m

\* if (doorLockTimer > 0 && now >= doorLockTimer) lock
DoorRelock(m) ==
  IF m.g.doorLockTimer # NoStamp /\ m.g.doorLockTimer <= 0
  THEN [m EXCEPT !.io.accept = LOW,
                 !.g.doorForceUnlock = FALSE,
                 !.g.doorOpened = FALSE,
                 !.g.doorLockTimer = NoStamp]
  ELSE m

\* reed is digitalRead(REED_PIN): HIGH = closed, LOW = open.
DoorUpdate(m, reed) ==
  IF m.g.doorForceUnlock THEN DoorRelock(DoorArm(DoorSeeOpen(m, reed), reed))
  ELSE m

(***************************************************************************)
(* Menu display and navigation                                             *)
(***************************************************************************)
DisplayMenu(m) ==
  PrintScreen(m, Screen(<<">", menuItems[m.g.currentSelection + 1]>>,
                        <<" ", menuItems[((m.g.currentSelection + 1) % MENU_SIZE) + 1]>>))

\* Up and Down move the selection in the main menu.
InputNavigate(m, in) ==
  IF m.g.lastDebounceTime > DEBOUNCE_DELAY /\ m.g.menuState = 0
  THEN LET a == IF in.up = LOW /\ m.g.lastUpState = HIGH
                THEN DisplayMenu([m EXCEPT
                       !.g.currentSelection =
                          IF @ = 0 THEN MENU_SIZE - 1 ELSE @ - 1,
                       !.g.lastDebounceTime = 0])
                ELSE m
       IN IF in.down = LOW /\ a.g.lastDownState = HIGH
          THEN DisplayMenu([a EXCEPT
                 !.g.currentSelection = (@ + 1) % MENU_SIZE,
                 !.g.lastDebounceTime = 0])
          ELSE a
  ELSE m

InputSelectPressed(m, in) ==
  IF in.select = LOW /\ m.g.lastSelectState = HIGH
  THEN [m EXCEPT !.g.selectPressStart = 0, !.g.isLongPressReturnActive = FALSE]
  ELSE m

\* A long press that is reported and changes no mode.
InputSelectHeldStays(m, in) ==
  IF in.select = LOW /\ m.g.selectPressStart # NoStamp
     /\ ~m.g.isLongPressReturnActive
     /\ m.g.selectPressStart >= LONG_PRESS_DURATION
  THEN [m EXCEPT !.g.isLongPressReturnActive = TRUE,
                 !.g.selectPressStart = NoStamp]
  ELSE m

\* Long press of Select: back to the menu, or from the menu to Idle.
\* (selectPressStart > 0 is read as "a stamp was taken".)
InputSelectHeld(m, in) ==
  IF in.select = LOW /\ m.g.selectPressStart # NoStamp
     /\ ~m.g.isLongPressReturnActive
     /\ m.g.selectPressStart >= LONG_PRESS_DURATION
  THEN LET a == [m EXCEPT !.g.isLongPressReturnActive = TRUE,
                          !.g.selectPressStart = NoStamp]
       IN IF m.g.menuState = 0
          THEN PrintScreen([a EXCEPT !.g.menuState = 0 - 2],
                           Msg("Scan your card", ""))
          ELSE DisplayMenu([a EXCEPT !.g.menuState = 0])
  ELSE m

\* A release whose short-press action enters the first mode of the menu
\* whatever is selected.
InputSelectReleasedToFirst(m, in) ==
  IF in.select = HIGH /\ m.g.lastSelectState = LOW
  THEN LET pressDuration == Since(m.g.selectPressStart)
           a == IF pressDuration > DEBOUNCE_DELAY
                   /\ ~m.g.isLongPressReturnActive /\ m.g.menuState = 0
                THEN [m EXCEPT !.g.menuState = 1]
                ELSE m
       IN [a EXCEPT !.g.lastDebounceTime = 0,
                    !.g.selectPressStart = NoStamp,
                    !.g.isLongPressReturnActive = FALSE]
  ELSE m

\* A release that takes the short-press action after a long press as well.
InputSelectReleasedAlways(m, in) ==
  IF in.select = HIGH /\ m.g.lastSelectState = LOW
  THEN LET pressDuration == Since(m.g.selectPressStart)
           a == IF pressDuration > DEBOUNCE_DELAY /\ m.g.menuState = 0
                THEN [m EXCEPT !.g.menuState = m.g.currentSelection + 1]
                ELSE m
       IN [a EXCEPT !.g.lastDebounceTime = 0,
                    !.g.selectPressStart = NoStamp,
                    !.g.isLongPressReturnActive = FALSE]
  ELSE m

InputSelectReleased(m, in) ==
  IF in.select = HIGH /\ m.g.lastSelectState = LOW
  THEN LET pressDuration == Since(m.g.selectPressStart)
           a == IF pressDuration > DEBOUNCE_DELAY
                   /\ ~m.g.isLongPressReturnActive /\ m.g.menuState = 0
                THEN [m EXCEPT !.g.menuState = m.g.currentSelection + 1]
                ELSE m
       IN [a EXCEPT !.g.lastDebounceTime = 0,
                    !.g.selectPressStart = NoStamp,
                    !.g.isLongPressReturnActive = FALSE]
  ELSE m

InputShadow(m, in) ==
  [m EXCEPT !.g.lastUpState = in.up,
            !.g.lastDownState = in.down,
            !.g.lastSelectState = in.select]

HandleInput(m, in) ==
  IF m.g.menuState = 0 /\ m.g.menuEntryTime < POST_ENTRY_DELAY THEN m
  ELSE InputShadow(
         InputSelectReleased(
           InputSelectHeld(
             InputSelectPressed(InputNavigate(m, in), in), in), in), in)

(***************************************************************************)
(* Idle: the scan-and-report machine                                       *)
(***************************************************************************)
\* A read loop takes the waiting bytes one by one: it stores a byte
\*   if (g_serial_index < MAX_GLOBAL_BUFFER_SIZE - 1) {
\*     g_serial_buffer[g_serial_index++] = c; g_serial_buffer[g_serial_index] = 0; }
\* and then tests for the end of the reply.  The loops are given by the
\* state after the first i bytes and by the first byte that ends the loop.
PutSeq(buf, idx, s) ==
  IF s = << >> \/ idx > Len(buf) THEN buf ELSE SubSeq(buf, 1, idx) \o s

NotEol(c) == c # "\r" /\ c # "\n"

\* The state after the loop took i bytes, storing them while there was
\* room; skipEol: the loop does not store '\r' and '\n'.
AfterBytes(m, i, skipEol) ==
  LET taken == SubSeq(m.rx, 1, i)
      put == Take(IF skipEol THEN SelectSeq(taken, NotEol) ELSE taken,
                  MAX_GLOBAL_BUFFER_SIZE - 1 - m.g.g_serial_index)
  IN [m EXCEPT !.g.g_serial_buffer = PutSeq(@, m.g.g_serial_index, put),
               !.g.g_serial_index = @ + Len(put),
               !.rx = SubSeq(@, i + 1, Len(@)),
               !.obs.replyBytes = @ \o taken]

BufferHasRoom(m) == m.g.g_serial_index < MAX_GLOBAL_BUFFER_SIZE - 1

\* There was room for the i-th byte.
HadRoom(m, i, skipEol) == BufferHasRoom(AfterBytes(m, i - 1, skipEol))

First(S) == CHOOSE i \in S : \A j \in S : i <= j

\* while (Serial.available()) Serial.read();
SerialFlush(m) == [m EXCEPT !.rx = << >>]

\* extractValue(..., key, field, size): the field keeps its content when
\* the key is not found.
ScanExtract(m, key, field, size) ==
  LET r == ExtractValue(m.g.g_serial_buffer, key, size)
  IN IF r.found THEN [m EXCEPT !.scan[field] = r.value] ELSE m

ACT_IN == <<"I", "N">>
ACT_OUT == <<"O", "U", "T">>
ACT_FAIL == <<"F", "A", "I", "L">>

\* The branch on actionType with a refusal that opens the door.
ScanDecideOpensOnFail(m) ==
  IF m.scan.actionType = ACT_IN
  THEN PulseAccept(BeepOnce([m EXCEPT !.scan.subState = 2]))
  ELSE IF m.scan.actionType = ACT_OUT
  THEN PulseAccept(BeepOnce([m EXCEPT !.scan.subState = 3]))
  ELSE IF m.scan.actionType = ACT_FAIL
  THEN [PulseAccept(BeepTwice([m EXCEPT !.scan.subState = 3]))
          EXCEPT !.scan.stage2Ready = FALSE]
  ELSE PulseReject(BeepTwice([m EXCEPT !.scan.subState = 5]))

\* The branch on actionType after a reply with nm and act.
ScanDecide(m) ==
  IF m.scan.actionType = ACT_IN
  THEN PulseAccept(BeepOnce([m EXCEPT !.scan.subState = 2]))
  ELSE IF m.scan.actionType = ACT_OUT
  THEN PulseAccept(BeepOnce([m EXCEPT !.scan.subState = 3]))
  ELSE IF m.scan.actionType = ACT_FAIL
  THEN [PulseReject(BeepTwice([m EXCEPT !.scan.subState = 3]))
          EXCEPT !.scan.stage2Ready = FALSE]
  ELSE PulseReject(BeepTwice([m EXCEPT !.scan.subState = 5]))

\* extractValue(g_serial_buffer, key, ..., size) returns non-NULL.
HasField(m, key, size) == ExtractValue(m.g.g_serial_buffer, key, size).found

\* The optional fields are taken after nm and act; a reply without nm or
\* without act is an error (act is looked for only after nm was found).
ScanOptional(m) ==
  ScanExtract(
    ScanExtract(
      ScanExtract(m, <<"t", "m">>, "timeValue", TIME_SIZE),
      <<"d", "u", "r">>, "durationValue", TIME_SIZE),
    <<"r", "t", "r">>, "retryValue", TIME_SIZE)

ScanAction(m, hasName) ==
  IF hasName THEN ScanExtract(m, <<"a", "c", "t">>, "actionType", ACTION_SIZE) ELSE m

\* The same with the display time left running from the request.
ScanFieldsNoRestart(m, hasName, hasAction) ==
  IF hasName /\ hasAction
  THEN ScanDecide(ScanOptional(ScanAction(m, hasName)))
  ELSE PulseReject(BeepTwice([ScanAction(m, hasName) EXCEPT !.scan.subState = 5]))

ScanFields(m, hasName, hasAction) ==
  IF hasName /\ hasAction
  THEN ScanDecide([ScanOptional(ScanAction(m, hasName))
                     EXCEPT !.scan.transactionStartTime = 0])
  ELSE PulseReject(BeepTwice([ScanAction(m, hasName) EXCEPT !.scan.subState = 5]))

\* A '}' was stored: the reply is parsed.
ScanReply(m) ==
  IF StrStr(m.g.g_serial_buffer, RsltIs(<<"N", "F">>))
  THEN [m EXCEPT !.scan.subState = 6,
                 !.scan.transactionStartTime = 0,
                 !.g.mainScanDisplayDrawn = FALSE,
                 !.g.g_serial_index = 0]
  ELSE [ScanFields(ScanExtract(m, <<"n", "m">>, "userName", USERNAME_SIZE),
                   HasField(m, <<"n", "m">>, USERNAME_SIZE),
                   HasField(m, <<"a", "c", "t">>, ACTION_SIZE))
          EXCEPT !.g.mainScanDisplayDrawn = FALSE, !.g.g_serial_index = 0]

\* The observer of the display notes the time a reply is parsed.
Parsed(m) ==
  [m EXCEPT !.obs.sinceReply = IF m.obs.probe = "screen" THEN 0 ELSE @]

\* The read loop of subState 1: a stored '}' ends the reply.
ScanRead(m) ==
  LET ends == {i \in 1..Len(m.rx) : m.rx[i] = "}" /\ HadRoom(m, i, FALSE)}
  IN IF ends = {} THEN AfterBytes(m, Len(m.rx), FALSE)
     ELSE ScanReply(Parsed(AfterBytes(m, First(ends), FALSE)))

\* subState 0: prompt, then a tag starts an exchange.
ScanPrompt(m, in) ==
  LET a == IF ~m.g.mainScanDisplayDrawn
           THEN [SerialFlush(PrintScreen(m, Msg("Scan your card", "")))
                   EXCEPT !.g.mainScanDisplayDrawn = TRUE]
           ELSE m
  IN IF in.card # << >>
     THEN [SerialSend(a, SendSerialJson(<<"s", "c", "a", "n">>, UidHex(in.card),
                                        NoText, NoText, NoText, NoText))
             EXCEPT !.scan.subState = 1,
                    !.g.mainScanDisplayDrawn = FALSE,
                    !.scan.transactionStartTime = 0,
                    !.g.g_serial_index = 0]
     ELSE a

\* subState 1 with a timeout branch that does not wait.
ScanAwaitNoDelay(m) ==
  LET a == IF ~m.g.mainScanDisplayDrawn
           THEN [PrintScreen(m, Msg("Scan", "Processing...."))
                   EXCEPT !.g.mainScanDisplayDrawn = TRUE]
           ELSE m
  IN IF a.scan.transactionStartTime > SERIAL_TIMEOUT
     THEN [PrintScreen(a, Msg("Timeout!", "Try again."))
             EXCEPT !.scan.subState = 0,
                    !.g.mainScanDisplayDrawn = FALSE]
     ELSE ScanRead(a)

\* subState 1: await the scan reply.
ScanAwait(m) ==
  LET a == IF ~m.g.mainScanDisplayDrawn
           THEN [PrintScreen(m, Msg("Scan", "Processing...."))
                   EXCEPT !.g.mainScanDisplayDrawn = TRUE]
           ELSE m
  IN IF a.scan.transactionStartTime > SERIAL_TIMEOUT
     THEN Advance([PrintScreen(a, Msg("Timeout!", "Try again."))
                     EXCEPT !.scan.subState = 0,
                            !.g.mainScanDisplayDrawn = FALSE],
                  SCAN_DISPLAY_TIME)
     ELSE ScanRead(a)

\* The screen of a result sub-state, drawn once.
ScanScreen(m) ==
  CASE m.scan.subState = 2 ->
         Screen(m.scan.userName,
                <<"IN ">> \o Take(m.scan.timeValue, LCD_LINE_SIZE - 1 - 3))
    [] m.scan.subState = 3 ->
         Screen(m.scan.userName,
                IF m.scan.actionType = ACT_OUT
                THEN <<"OUT ">> \o Take(m.scan.timeValue, LCD_LINE_SIZE - 1 - 4)
                ELSE <<"Already Tapped">>)
    [] m.scan.subState = 4 ->
         IF m.scan.actionType = ACT_OUT
         THEN Screen(<<"Duration">>, Take(m.scan.durationValue, LCD_LINE_SIZE - 1))
         ELSE IF m.scan.actionType = ACT_FAIL
         THEN Screen(<<"Try after">>, Take(m.scan.retryValue, LCD_LINE_SIZE - 1))
         ELSE Msg("Wait for next", "entry cycle")
    [] m.scan.subState = 5 -> Msg("JSON Error!", "Reset host system.")
    [] m.scan.subState = 6 -> Msg("User not found", "Please Register")

ScanDraw(m) ==
  IF ~m.g.mainScanDisplayDrawn
  THEN LET a == [PrintScreen(m, ScanScreen(m)) EXCEPT !.g.mainScanDisplayDrawn = TRUE]
       IN IF m.scan.subState = 3 THEN [a EXCEPT !.scan.stage2Ready = FALSE] ELSE a
  ELSE m

\* subStates 2, 5, 6 (and 4): back to the prompt after the display time.
ScanDwell(m) ==
  LET a == ScanDraw(m)
  IN IF a.scan.transactionStartTime > SCAN_DISPLAY_TIME
     THEN [a EXCEPT !.scan.subState = 0,
                    !.g.mainScanDisplayDrawn = FALSE,
                    !.scan.stage2Ready =
                       IF m.scan.subState = 4 THEN FALSE ELSE @]
     ELSE a

\* subState 3 with the display time of the second stage left running.
ScanStage1NoRestart(m) ==
  LET a == ScanDraw(m)
  IN IF ~a.scan.stage2Ready /\ a.scan.transactionStartTime > SCAN_DISPLAY_TIME
     THEN [a EXCEPT !.scan.subState = 4,
                    !.g.mainScanDisplayDrawn = FALSE,
                    !.scan.stage2Ready = TRUE]
     ELSE a

\* subState 3: first stage of the two-stage display.
ScanStage1(m) ==
  LET a == ScanDraw(m)
  IN IF ~a.scan.stage2Ready /\ a.scan.transactionStartTime > SCAN_DISPLAY_TIME
     THEN [a EXCEPT !.scan.subState = 4,
                    !.g.mainScanDisplayDrawn = FALSE,
                    !.scan.transactionStartTime = 0,
                    !.scan.stage2Ready = TRUE]
     ELSE a

MainCardScan(m, in) ==
  CASE m.scan.subState = 0 -> ScanPrompt(m, in)
    [] m.scan.subState = 1 -> ScanAwait(m)
    [] m.scan.subState = 3 -> ScanStage1(m)
    [] m.scan.subState \in {2, 4, 5, 6} -> ScanDwell(m)

(***************************************************************************)
(* Menu entry gesture and admin authentication                             *)
(***************************************************************************)
KeepShadow(m, in) ==
  [m EXCEPT !.g.lastUpState = in.up,
            !.g.lastDownState = in.down,
            !.g.lastSelectState = in.select]

\* Serial.readStringUntil('\n'): drops the queue up to the next newline.
DropLine(q) ==
  LET nl == StrChrFrom(q, 0, "\n")
  IN IF nl < 0 THEN << >> ELSE SubSeq(q, nl + 2, Len(q))

\* The hold of Up and Select lasted MENU_ENTRY_DURATION.
EntryGesture(m) ==
  IF m.g.menuState = 0 - 2 /\ ~m.g.wifiConnected
  THEN [m EXCEPT !.g.menuState = 3, !.g.requestDirectWifiEntry = TRUE]
  ELSE [m EXCEPT !.g.menuState = 0 - 3,
                 !.g.entryPressStart = NoStamp,
                 !.auth.authSubState = 0,
                 !.auth.displayRunOnce = FALSE,
                 !.auth.authSelectPressStart = NoStamp,
                 !.g.lastUpState = HIGH,
                 !.g.lastSelectState = HIGH]

\* A release that leaves the hold timer running.
EntryAbortKeepsTimer(m) ==
  [m EXCEPT !.g.menuState = 0 - 2,
            !.g.mainScanDisplayDrawn = FALSE]

\* The hold was released before MENU_ENTRY_DURATION.
EntryAbort(m) ==
  [m EXCEPT !.g.entryPressStart = NoStamp,
            !.g.menuState = 0 - 2,
            !.g.mainScanDisplayDrawn = FALSE]

\* A newline ended the auth reply.
AuthReply(m) ==
  LET r == ExtractValue(m.g.g_serial_buffer, KeyRslt, MAX_EXTRACT_BUFFER)
      a == IF r.found
           THEN LET b == [m EXCEPT !.g.g_temp_extract_buffer = r.value]
                IN IF r.value = <<"a", "d", "m", "i", "n">>
                   THEN DisplayMenu([b EXCEPT !.g.menuState = 0,
                                              !.g.menuEntryTime = 0])
                   ELSE [b EXCEPT !.auth.authSubState = 2,
                                  !.auth.authStartTime = 0]
           ELSE Advance([PrintScreen(m, Msg("AUTH JSON ERROR!", "Restart host."))
                           EXCEPT !.rx = DropLine(@),
                                  !.auth.authSubState = 0],
                        SCAN_DISPLAY_TIME)
  IN [a EXCEPT !.auth.displayRunOnce = FALSE, !.g.g_serial_index = 0]

\* The read loop of authSubState 1: '\r' and '\n' are not stored, '\n' ends
\* the reply; ret: the function returned.
AuthRead(m) ==
  LET ends == {i \in 1..Len(m.rx) : m.rx[i] = "\n"}
  IN IF ends = {} THEN [m |-> AfterBytes(m, Len(m.rx), TRUE), ret |-> FALSE]
     ELSE [m |-> AuthReply(AfterBytes(m, First(ends), TRUE)), ret |-> TRUE]

\* authSubState 0: prompt, then a tag starts the auth exchange.
AuthPrompt(m, in) ==
  LET a == IF ~m.auth.displayRunOnce
           THEN [SerialFlush(PrintScreen(m, Msg("Auth. scan card", "waiting....")))
                   EXCEPT !.auth.displayRunOnce = TRUE,
                          !.g.g_serial_index = 0]
           ELSE m
  IN IF in.card # << >>
     THEN [SerialSend(a, SendSerialJson(<<"a", "u", "t", "h">>, UidHex(in.card),
                                        NoText, NoText, NoText, NoText))
             EXCEPT !.auth.authUserId = UidHex(in.card),
                    !.auth.authSubState = 1,
                    !.auth.displayRunOnce = FALSE,
                    !.auth.authStartTime = 0]
     ELSE a

\* After the read loop: the shadow is kept unless the function returned.
AuthReturn(r, in) == IF r.ret THEN r.m ELSE KeepShadow(r.m, in)

\* authSubState 1: await the auth reply.
AuthAwait(m, in) ==
  LET a == IF ~m.auth.displayRunOnce
           THEN [PrintScreen(m, Msg("Scanned Card", "Processing...."))
                   EXCEPT !.auth.displayRunOnce = TRUE]
           ELSE m
  IN IF a.auth.authStartTime > SERIAL_TIMEOUT
     THEN Advance([PrintScreen(a, Msg("Auth Timeout!", "Try again."))
                     EXCEPT !.auth.authSubState = 0,
                            !.auth.displayRunOnce = FALSE],
                  SCAN_DISPLAY_TIME)
     ELSE AuthReturn(AuthRead(a), in)

\* authSubState 2: not an admin; back to Idle after the display time.
AuthDenied(m, in) ==
  LET a == IF ~m.auth.displayRunOnce
           THEN [PrintScreen(m, Msg("User - not admin", "reverting..."))
                   EXCEPT !.auth.displayRunOnce = TRUE]
           ELSE m
      b == IF a.auth.authStartTime > SCAN_DISPLAY_TIME
           THEN [a EXCEPT !.g.menuState = 0 - 2, !.auth.displayRunOnce = FALSE]
           ELSE a
  IN KeepShadow(b, in)

\* A long press of Select in Authenticate that only forgets the press.
AuthLongPressStays(m) ==
  [m EXCEPT !.auth.authSelectPressStart = NoStamp, !.g.lastSelectState = HIGH]

\* Long press of Select in Authenticate: back to Idle.
AuthLongPressExit(m) ==
  PrintScreen([m EXCEPT !.g.menuState = 0 - 2,
                        !.auth.authSubState = 0,
                        !.g.mainScanDisplayDrawn = FALSE,
                        !.auth.authSelectPressStart = NoStamp,
                        !.g.lastSelectState = HIGH],
              Msg("Scan your card", ""))

\* handleAuthentication below the gesture check, in Authenticate.
AuthMode(m, in) ==
  LET a == IF in.select = LOW /\ m.g.lastSelectState = HIGH
           THEN [m EXCEPT !.auth.authSelectPressStart = 0] ELSE m
  IN IF in.select = LOW /\ a.auth.authSelectPressStart # NoStamp
        /\ a.auth.authSelectPressStart >= LONG_PRESS_DURATION
     THEN AuthLongPressExit(a)
     ELSE LET b == IF in.select = HIGH /\ a.g.lastSelectState = LOW
                   THEN [a EXCEPT !.auth.authSelectPressStart = NoStamp] ELSE a
          IN CASE b.auth.authSubState = 0 -> KeepShadow(AuthPrompt(b, in), in)
               [] b.auth.authSubState = 1 -> AuthAwait(b, in)
               [] b.auth.authSubState = 2 -> AuthDenied(b, in)

\* A comparison that asks for more than MENU_ENTRY_DURATION.
EntryHoldLonger(m) == m.g.entryPressStart > MENU_ENTRY_DURATION

\* The gesture has to last this long.
EntryHoldComplete(m) == m.g.entryPressStart >= MENU_ENTRY_DURATION

\* handleAuthentication below the gesture check.
AuthOrScan(m, in) ==
  IF m.g.menuState # 0 - 3 THEN KeepShadow(MainCardScan(m, in), in)
  ELSE AuthMode(m, in)

\* isHolding && !wasHolding: the hold starts.
EntryHoldStart(m, in) ==
  IF in.up = LOW /\ in.select = LOW /\ m.g.entryPressStart = NoStamp
  THEN PrintScreen([m EXCEPT !.g.entryPressStart = 0], Msg("ENTERING MENU...", ""))
  ELSE m

HandleAuthentication(m, in) ==
  LET isHolding == in.up = LOW /\ in.select = LOW
      wasHolding == m.g.entryPressStart # NoStamp
  IN IF isHolding /\ wasHolding /\ EntryHoldComplete(m) THEN EntryGesture(m)
     ELSE IF ~isHolding /\ wasHolding /\ m.g.menuState # 0 - 3 THEN EntryAbort(m)
     ELSE AuthOrScan(EntryHoldStart(m, in), in)

(***************************************************************************)
(* Text entry: the scroll step shared by the four widgets                  *)
(***************************************************************************)
TERMINATOR == "*"

\* Up: charIndex--, wrapping; else Down: charIndex++, wrapping.
ScrollIndex(charIndex, in) ==
  IF in.up = LOW
  THEN (IF charIndex - 1 < 0 THEN CHAR_TABLE_SIZE - 1 ELSE charIndex - 1)
  ELSE IF in.down = LOW
  THEN (IF charIndex + 1 >= CHAR_TABLE_SIZE THEN 0 ELSE charIndex + 1)
  ELSE charIndex

Scrolls(in) == in.up = LOW \/ in.down = LOW

\* "%c Char %d: <%c>"
CharLine(okCount, pos, letter) ==
  <<(IF okCount = 0 THEN ">" ELSE "!"), " Char ", ToString(pos + 1), ": <",
    letter, ">">>

(***************************************************************************)
(* Add User                                                                *)
(***************************************************************************)
TITLE_ADMIN == <<"a", "d", "m", "i", "n">>
TITLE_USER == <<"u", "s", "e", "r">>

AddShadow(m, in) ==
  [m EXCEPT !.add.localLastUpState = in.up,
            !.add.localLastDownState = in.down,
            !.add.localLastSelectState = in.select]

AddSelectReleased(m, in) ==
  in.select = HIGH /\ m.add.localLastSelectState = LOW

\* if (menuState != 1) { ... return; }
AddReset(m) ==
  [m EXCEPT !.add.subState = 0,
            !.add.userId = << >>,
            !.add.userName = << >>,
            !.add.nameCharIndex = 0,
            !.add.userTitle = TITLE_ADMIN,
            !.add.okPressCount = 0,
            !.add.isTitleAdmin = TRUE,
            !.add.displayUpdateNeeded = TRUE,
            !.g.g_serial_index = 0,
            !.g.g_serial_buffer = << >>,
            !.add.localLastUpState = HIGH,
            !.add.localLastDownState = HIGH,
            !.add.localLastSelectState = HIGH]

\* subState 0: prompt, then a tag starts the search exchange.
AddScanId(m, in) ==
  LET a == IF m.add.displayUpdateNeeded
           THEN [PrintScreen(m, Msg("Scan User ID", "Waiting..."))
                   EXCEPT !.add.displayUpdateNeeded = FALSE,
                          !.g.g_serial_index = 0]
           ELSE m
  IN IF in.card # << >>
     THEN [PrintScreen(
             SerialSend(a, SendSerialJson(<<"s", "e", "a", "r", "c", "h">>,
                                          UidHex(in.card),
                                          NoText, NoText, NoText, NoText)),
             Screen(<<"Searching...">>, UidHex(in.card)))
             EXCEPT !.add.userId = UidHex(in.card),
                    !.add.subState = 1,
                    !.add.displayUpdateNeeded = TRUE]
     ELSE a

\* The reply test of subState 1, made after each byte c.
AddSearchReplyTo(m, c) ==
  IF c = "\n" \/ StrStr(m.g.g_serial_buffer, <<"}">>)
  THEN IF StrStr(m.g.g_serial_buffer, RsltIs(<<"F">>)) THEN 6
       ELSE IF StrStr(m.g.g_serial_buffer, RsltIs(<<"N", "F">>)) THEN 2
       ELSE 1
  ELSE 1

\* subState 1: await the search reply.
AddSearchRead(m) ==
  LET ends == {i \in 1..Len(m.rx) :
                 AddSearchReplyTo(AfterBytes(m, i, FALSE), m.rx[i]) # 1}
  IN IF ends = {} THEN AfterBytes(m, Len(m.rx), FALSE)
     ELSE LET a == AfterBytes(m, First(ends), FALSE)
          IN [a EXCEPT !.add.subState = AddSearchReplyTo(a, m.rx[First(ends)]),
                       !.add.displayUpdateNeeded = TRUE,
                       !.g.g_serial_index = 0]

\* if (nameInit) { ... }
AddNameInit(m) ==
  IF m.add.nameInit
  THEN [m EXCEPT !.add.charIndex = 0,
                 !.add.currentLetter = CharAt(0),
                 !.add.nameCharIndex = 0,
                 !.add.userName = << >>,
                 !.add.okPressCount = 0,
                 !.add.displayUpdateNeeded = TRUE,
                 !.add.nameInit = FALSE]
  ELSE m

\* The scroll that leaves the count of presses as it is.
AddNameScrollKeeps(m, in) ==
  IF m.add.lastCharUpdateTime > CHAR_SCROLL_DELAY /\ Scrolls(in)
  THEN LET i == ScrollIndex(m.add.charIndex, in)
       IN [m EXCEPT !.add.charIndex = i,
                    !.add.currentLetter = CharAt(i),
                    !.add.lastCharUpdateTime = 0,
                    !.add.displayUpdateNeeded = TRUE]
  ELSE m

AddNameScroll(m, in) ==
  IF m.add.lastCharUpdateTime > CHAR_SCROLL_DELAY /\ Scrolls(in)
  THEN LET i == ScrollIndex(m.add.charIndex, in)
       IN [m EXCEPT !.add.charIndex = i,
                    !.add.currentLetter = CharAt(i),
                    !.add.lastCharUpdateTime = 0,
                    !.add.okPressCount = 0,
                    !.add.displayUpdateNeeded = TRUE]
  ELSE m

\* The entry is complete: on to the title.
AddNameDone(m) ==
  [m EXCEPT !.add.nameInit = TRUE,
            !.add.subState = 3,
            !.add.displayUpdateNeeded = TRUE,
            !.add.localLastSelectState = HIGH]

\* userName[nameCharIndex++] = currentLetter, when there is room.
AddNameAppendShort(m) ==
  IF m.add.nameCharIndex < MAX_NAME_SIZE - 2
  THEN [m EXCEPT !.add.userName = PutChar(@, m.add.nameCharIndex, m.add.currentLetter),
                 !.add.nameCharIndex = @ + 1, !.add.charIndex = 0,
                 !.add.currentLetter = CharAt(0), !.add.okPressCount = 1,
                 !.add.displayUpdateNeeded = TRUE]
  ELSE m

AddNameAppend(m) ==
  IF m.add.nameCharIndex < MAX_NAME_SIZE - 1
  THEN [m EXCEPT !.add.userName = PutChar(@, m.add.nameCharIndex, m.add.currentLetter),
                 !.add.nameCharIndex = @ + 1,
                 !.add.charIndex = 0,
                 !.add.currentLetter = CharAt(0),
                 !.add.okPressCount = 1,
                 !.add.displayUpdateNeeded = TRUE]
  ELSE m

AddNameDraw(m) ==
  IF m.add.displayUpdateNeeded
  THEN [PrintScreen(m, Screen(<<"Name: ">> \o Take(m.add.userName, LCD_LINE_SIZE - 1 - 6),
                              CharLine(m.add.okPressCount, m.add.nameCharIndex,
                                       m.add.currentLetter)))
          EXCEPT !.add.displayUpdateNeeded = FALSE]
  ELSE m

\* subState 2: the name widget.
AddEnterName(m, in) ==
  LET a == AddNameScroll(AddNameInit(m), in)
  IN IF AddSelectReleased(a, in)
        /\ (a.add.currentLetter = TERMINATOR \/ a.add.okPressCount = 1)
     THEN AddNameDone(a)
     ELSE AddShadow(
            AddNameDraw(IF AddSelectReleased(a, in) THEN AddNameAppend(a) ELSE a),
            in)

\* subState 3: the title, then the add request.
AddSelectTitle(m, in) ==
  LET a == IF (in.up = LOW /\ m.add.localLastUpState = HIGH)
              \/ (in.down = LOW /\ m.add.localLastDownState = HIGH)
           THEN [m EXCEPT !.add.isTitleAdmin = ~@,
                          !.add.userTitle =
                             IF ~m.add.isTitleAdmin THEN TITLE_ADMIN ELSE TITLE_USER,
                          !.add.displayUpdateNeeded = TRUE]
           ELSE m
  IN IF AddSelectReleased(a, in)
     THEN [SerialSend(PrintScreen(a, Msg("Adding user", "Processing...")),
                      SendSerialJson(<<"a", "d", "d">>, a.add.userId,
                                     a.add.userName, a.add.userTitle,
                                     NoText, NoText))
             EXCEPT !.add.subState = 4,
                    !.add.displayUpdateNeeded = TRUE,
                    !.g.g_serial_index = 0]
     ELSE AddShadow(
            IF a.add.displayUpdateNeeded
            THEN [PrintScreen(a, Screen(<<"Select Title">>,
                                        <<"Title: <">> \o a.add.userTitle \o <<">">>))
                    EXCEPT !.add.displayUpdateNeeded = FALSE]
            ELSE a,
            in)

\* subState 4: await the add reply.
AddReplyEnds(m, c) ==
  (c = "\n" \/ StrStr(m.g.g_serial_buffer, <<"}">>))
  /\ StrStr(m.g.g_serial_buffer, RsltIs(<<"A">>))

AddReplyRead(m) ==
  LET ends == {i \in 1..Len(m.rx) : AddReplyEnds(AfterBytes(m, i, FALSE), m.rx[i])}
  IN IF ends = {} THEN AfterBytes(m, Len(m.rx), FALSE)
     ELSE [AfterBytes(m, First(ends), FALSE)
             EXCEPT !.add.subState = 5,
                    !.add.displayUpdateNeeded = TRUE,
                    !.g.g_serial_index = 0]

\* subStates 5 and 6: a result screen left with Select.
AddAcknowledge(m, in, line1) ==
  LET a == IF m.add.displayUpdateNeeded
           THEN [PrintScreen(m, Msg(line1, "Press OK to exit"))
                   EXCEPT !.add.displayUpdateNeeded = FALSE]
           ELSE m
  IN IF AddSelectReleased(a, in)
     THEN [DisplayMenu([a EXCEPT !.add.subState = 0, !.g.menuState = 0])
             EXCEPT !.add.displayUpdateNeeded = TRUE]
     ELSE a

AddUser(m, in) ==
  IF m.g.menuState # 1 THEN AddReset(m)
  ELSE CASE m.add.subState = 0 -> AddShadow(AddScanId(m, in), in)
         [] m.add.subState = 1 -> AddShadow(AddSearchRead(m), in)
         [] m.add.subState = 2 -> AddEnterName(m, in)
         [] m.add.subState = 3 -> AddSelectTitle(m, in)
         [] m.add.subState = 4 -> AddShadow(AddReplyRead(m), in)
         [] m.add.subState = 5 -> AddShadow(AddAcknowledge(m, in, "User added"), in)
         [] m.add.subState = 6 -> AddShadow(AddAcknowledge(m, in, "ID exists"), in)

(***************************************************************************)
(* Delete User                                                             *)
(***************************************************************************)
DelShadow(m, in) ==
  [m EXCEPT !.del.localLastUpState = in.up,
            !.del.localLastDownState = in.down,
            !.del.localLastSelectState = in.select]

DelSelectReleased(m, in) ==
  in.select = HIGH /\ m.del.localLastSelectState = LOW

DelUpOrDownPressed(m, in) ==
  (in.up = LOW /\ m.del.localLastUpState = HIGH)
  \/ (in.down = LOW /\ m.del.localLastDownState = HIGH)

\* if (menuState != 2) { ... return; }
DelReset(m) ==
  [m EXCEPT !.del.subState = 0,
            !.del.scannedUserId = << >>,
            !.g.g_serial_index = 0,
            !.del.displayUpdateNeeded = TRUE,
            !.del.localLastUpState = HIGH,
            !.del.localLastDownState = HIGH,
            !.del.localLastSelectState = HIGH]

DelDraw(m, scr) ==
  IF m.del.displayUpdateNeeded
  THEN [PrintScreen(m, scr) EXCEPT !.del.displayUpdateNeeded = FALSE]
  ELSE m

DelGoto(m, to) == [m EXCEPT !.del.subState = to, !.del.displayUpdateNeeded = TRUE]

\* subState 0: prompt, then a tag starts the search exchange.
DelScanId(m, in) ==
  LET a == IF m.del.displayUpdateNeeded
           THEN [DelDraw(m, Msg("Delete user", "Scan your card"))
                   EXCEPT !.g.g_serial_index = 0]
           ELSE m
  IN IF in.card # << >>
     THEN DelGoto([SerialSend(a, SendSerialJson(<<"s", "e", "a", "r", "c", "h">>,
                                                UidHex(in.card),
                                                NoText, NoText, NoText, NoText))
                     EXCEPT !.del.scannedUserId = UidHex(in.card)], 1)
     ELSE a

\* subState 1: await the search reply; a full buffer counts as not found.
\* The reply test of subState 1, made after each stored byte c.
DelSearchReplyTo(m, c) ==
  IF c = "\n" \/ StrStr(m.g.g_serial_buffer, <<"}">>)
  THEN IF StrStr(m.g.g_serial_buffer, RsltIs(<<"F">>)) THEN 2
       ELSE IF StrStr(m.g.g_serial_buffer, RsltIs(<<"N", "F">>)) THEN 4
       ELSE 1
  ELSE 1

DelSearchRead(m) ==
  LET ends == {i \in 1..Len(m.rx) :
                 \/ ~HadRoom(m, i, FALSE)
                 \/ DelSearchReplyTo(AfterBytes(m, i, FALSE), m.rx[i]) # 1}
  IN IF ends = {} THEN AfterBytes(m, Len(m.rx), FALSE)
     ELSE LET i == First(ends)
              a == AfterBytes(m, i, FALSE)
          IN IF ~HadRoom(m, i, FALSE) THEN DelGoto(a, 4)
             ELSE [DelGoto(a, DelSearchReplyTo(a, m.rx[i])) EXCEPT !.g.g_serial_index = 0]

\* subState 2: confirm with Select, cancel with Up or Down.
DelConfirm(m, in) ==
  LET a == DelDraw(m, Msg("User found!", "Del>ok cancle>up"))
  IN IF DelSelectReleased(a, in)
     THEN [DelGoto(SerialSend(a, SendSerialJson(<<"d", "e", "l", "e", "t", "e">>,
                                                a.del.scannedUserId,
                                                NoText, NoText, NoText, NoText)), 3)
             EXCEPT !.g.g_serial_index = 0]
     ELSE IF DelUpOrDownPressed(a, in) THEN DelGoto(a, 6)
     ELSE a

\* subState 3: await the delete reply.
DelReplyEnds(m, c) ==
  (c = "\n" \/ StrStr(m.g.g_serial_buffer, <<"}">>))
  /\ StrStr(m.g.g_serial_buffer, RsltIs(<<"D", "L">>))

DelReplyRead(m) ==
  LET ends == {i \in 1..Len(m.rx) :
                 HadRoom(m, i, FALSE)
                 /\ DelReplyEnds(AfterBytes(m, i, FALSE), m.rx[i])}
  IN IF ends = {} THEN AfterBytes(m, Len(m.rx), FALSE)
     ELSE [DelGoto(AfterBytes(m, First(ends), FALSE), 5) EXCEPT !.g.g_serial_index = 0]

\* Back to the main menu.
DelToMenu(m) ==
  [DisplayMenu([m EXCEPT !.del.subState = 0, !.g.menuState = 0])
     EXCEPT !.del.displayUpdateNeeded = TRUE]

\* subStates 4 and 5: a result screen left with Select.
DelAcknowledge(m, in, line1) ==
  LET a == DelDraw(m, Msg(line1, "Press ok to exit"))
  IN IF DelSelectReleased(a, in) THEN DelToMenu(a) ELSE a

\* subState 6: cancelled.
DelCancel(m) ==
  IF m.del.displayUpdateNeeded
  THEN DelToMenu(Advance(PrintScreen(m, Msg("Canceling...", "Returning...")),
                         CANCEL_DELAY))
  ELSE m

DeleteUser(m, in) ==
  IF m.g.menuState # 2 THEN DelReset(m)
  ELSE DelShadow(
         CASE m.del.subState = 0 -> DelScanId(m, in)
           [] m.del.subState = 1 ->
                DelSearchRead(DelDraw(m, Screen(<<"Searching...">>, m.del.scannedUserId)))
           [] m.del.subState = 2 -> DelConfirm(m, in)
           [] m.del.subState = 3 ->
                DelReplyRead(DelDraw(m, Msg("Deleting user", "Processing....")))
           [] m.del.subState = 4 -> DelAcknowledge(m, in, "User not found")
           [] m.del.subState = 5 -> DelAcknowledge(m, in, "User Deleted")
           [] m.del.subState = 6 -> DelCancel(m),
         in)

(***************************************************************************)
(* Settings: reset time and network provisioning                           *)
(***************************************************************************)
CfgShadow(m, in) ==
  [m EXCEPT !.cfg.localLastUpState = in.up,
            !.cfg.localLastDownState = in.down,
            !.cfg.localLastSelectState = in.select]

CfgShadowHigh(m) ==
  [m EXCEPT !.cfg.localLastUpState = HIGH,
            !.cfg.localLastDownState = HIGH,
            !.cfg.localLastSelectState = HIGH]

CfgSelectReleased(m, in) ==
  in.select = HIGH /\ m.cfg.localLastSelectState = LOW

CfgUpPressed(m, in) == in.up = LOW /\ m.cfg.localLastUpState = HIGH
CfgDownPressed(m, in) == in.down = LOW /\ m.cfg.localLastDownState = HIGH

CfgDraw(m, scr) ==
  IF m.cfg.displayUpdateNeeded
  THEN [PrintScreen(m, scr) EXCEPT !.cfg.displayUpdateNeeded = FALSE]
  ELSE m

CfgGoto(m, to) == [m EXCEPT !.cfg.subState = to, !.cfg.displayUpdateNeeded = TRUE]

\* if (menuState != 3) { ... return; }
CfgReset(m) ==
  [CfgShadowHigh(m) EXCEPT
     !.cfg.subState = 0, !.cfg.settingsSelection = 0,
     !.cfg.hours = 0, !.cfg.minutes = 0, !.cfg.seconds = 0,
     !.cfg.timeGroupIndex = 0, !.cfg.displayUpdateNeeded = TRUE,
     !.cfg.inputReady = FALSE,
     !.g.g_serial_index = 0, !.g.g_serial_buffer = << >>,
     !.g.enteredDirectlyThisSession = FALSE]

\* The entry checks made on every call while menuState is 3.
CfgEntry(m) ==
  LET a == IF m.g.requestDirectWifiEntry /\ m.cfg.subState = 0
           THEN [m EXCEPT !.g.enteredDirectlyThisSession = TRUE,
                          !.g.requestDirectWifiEntry = FALSE]
           ELSE m
      b == IF a.cfg.wifiInit /\ a.cfg.subState = 0
           THEN [a EXCEPT !.g.wifiChosenSSID = << >>,
                          !.g.wifiChosenPass = << >>,
                          !.cfg.manualSSID = << >>,
                          !.cfg.passwordBuff = << >>,
                          !.cfg.wifiInit = FALSE]
           ELSE a
  IN IF b.cfg.subState = 0 THEN [b EXCEPT !.cfg.wifiInit = TRUE] ELSE b

\* subState 0: the option list.
CfgOptions(m, in) ==
  IF m.g.enteredDirectlyThisSession
  THEN CfgShadowHigh([CfgGoto(m, 30) EXCEPT !.cfg.settingsSelection = 1,
                                            !.cfg.inputReady = FALSE])
  ELSE LET a == IF CfgUpPressed(m, in)
                THEN [m EXCEPT !.cfg.settingsSelection =
                                  IF @ = 0 THEN SETTINGS_MENU_SIZE - 1 ELSE @ - 1,
                               !.cfg.displayUpdateNeeded = TRUE]
                ELSE IF CfgDownPressed(m, in)
                THEN [m EXCEPT !.cfg.settingsSelection = (@ + 1) % SETTINGS_MENU_SIZE,
                               !.cfg.displayUpdateNeeded = TRUE]
                ELSE m
       IN IF CfgSelectReleased(a, in)
          THEN LET b == CfgShadowHigh(PrintScreen(a, Screen(<< >>, << >>)))
               IN IF b.cfg.settingsSelection = 0
                  THEN [CfgGoto(b, 11) EXCEPT !.cfg.hours = 0, !.cfg.minutes = 0,
                                              !.cfg.seconds = 0,
                                              !.cfg.timeGroupIndex = 0,
                                              !.cfg.inputReady = FALSE]
                  ELSE [CfgGoto(b, 30) EXCEPT !.cfg.inputReady = FALSE]
          ELSE CfgShadow(
                 CfgDraw(a, Screen(
                   <<">", settingsMenuItems[a.cfg.settingsSelection + 1]>>,
                   <<" ", settingsMenuItems[
                            ((a.cfg.settingsSelection + 1) % SETTINGS_MENU_SIZE) + 1]>>)),
                 in)

\* subState 30: wait for the release of Select.
CfgWaitRelease(m, in) ==
  LET a == CfgDraw(m, Msg("Ready...", "Release SELECT"))
  IN IF in.select = HIGH
     THEN [CfgGoto(a, 31) EXCEPT !.cfg.localLastSelectState = HIGH]
     ELSE a

\* "%02d"
Dec2(n) == <<HexDigits[(n \div 10) + 1], HexDigits[(n % 10) + 1]>>
TimeString(m) ==
  Dec2(m.cfg.hours) \o <<":">> \o Dec2(m.cfg.minutes) \o <<":">> \o Dec2(m.cfg.seconds)

TimeField(m) ==
  CASE m.cfg.timeGroupIndex = 0 -> "hours"
    [] m.cfg.timeGroupIndex = 1 -> "minutes"
    [] m.cfg.timeGroupIndex = 2 -> "seconds"
    [] OTHER -> "none"
TimeMax(f) == IF f = "hours" THEN 23 ELSE 59

\* Up and Down change the selected group of the reset time.
CfgTimeAdjust(m, in) ==
  LET f == TimeField(m)
  IN IF f = "none" THEN m
     ELSE IF CfgUpPressed(m, in)
     THEN [m EXCEPT !.cfg[f] = IF @ = TimeMax(f) THEN 0 ELSE @ + 1]
     ELSE IF CfgDownPressed(m, in)
     THEN [m EXCEPT !.cfg[f] = IF @ = 0 THEN TimeMax(f) ELSE @ - 1]
     ELSE m

\* subState 11: set the reset time.
CfgSetTime(m, in) ==
  LET a == IF ~m.cfg.inputReady THEN [m EXCEPT !.cfg.inputReady = TRUE]
           ELSE LET b == IF CfgUpPressed(m, in) \/ CfgDownPressed(m, in)
                         THEN [CfgTimeAdjust(m, in) EXCEPT !.cfg.displayUpdateNeeded = TRUE]
                         ELSE m
                IN IF CfgSelectReleased(b, in)
                   THEN [b EXCEPT !.cfg.timeGroupIndex = @ + 1,
                                  !.cfg.displayUpdateNeeded = TRUE,
                                  !.cfg.subState = IF b.cfg.timeGroupIndex + 1 > 2
                                                   THEN 12 ELSE @]
                   ELSE b
      mark(i) == IF a.cfg.timeGroupIndex = i THEN ">" ELSE " "
  IN CfgDraw(a, Screen(<<"Set Reset Time">>,
                       <<mark(0)>> \o Dec2(a.cfg.hours) \o <<":", mark(1)>>
                       \o Dec2(a.cfg.minutes) \o <<":", mark(2)>>
                       \o Dec2(a.cfg.seconds)))

\* subState 12: confirm the reset time.
CfgConfirmTime(m, in) ==
  LET a == CfgDraw(m, Screen(<<"Confirm: ">> \o Take(TimeString(m), LCD_LINE_SIZE - 1 - 9),
                             <<"OK=Yes Up/Dn=No">>))
  IN IF CfgSelectReleased(a, in)
     THEN [CfgGoto(a, 13) EXCEPT !.cfg.inputReady = FALSE]
     ELSE IF CfgUpPressed(a, in) \/ CfgDownPressed(a, in) THEN CfgGoto(a, 0)
     ELSE a

\* subState 13: send the reset time once, then await the reply.
CfgTimeEnds(m, c) ==
  (c = "\n" \/ StrStr(m.g.g_serial_buffer, <<"}">>))
  /\ StrStr(m.g.g_serial_buffer, RsltIs(<<"D">>))

CfgTimeRead(m) ==
  LET ends == {i \in 1..Len(m.rx) :
                 HadRoom(m, i, FALSE)
                 /\ CfgTimeEnds(AfterBytes(m, i, FALSE), m.rx[i])}
  IN IF ends = {} THEN AfterBytes(m, Len(m.rx), FALSE)
     ELSE [CfgGoto(AfterBytes(m, First(ends), FALSE), 14)
             EXCEPT !.g.g_serial_index = 0, !.cfg.inputReady = FALSE]

\* A sub-state 13 that writes the request in every iteration.
CfgSendTimeEach(m) ==
  [PrintScreen(
     SerialSend(m, SendSerialJson(<<"r", "s", "t", "_", "t", "i", "m", "e">>,
                                  NoText, NoText, NoText, NoText, TimeString(m))),
     Msg("Reset Time", "Updating...."))
     EXCEPT !.cfg.displayUpdateNeeded = FALSE]

CfgSendTime(m) ==
  IF m.cfg.displayUpdateNeeded
  THEN [PrintScreen(
          SerialSend(m, SendSerialJson(<<"r", "s", "t", "_", "t", "i", "m", "e">>,
                                       NoText, NoText, NoText, NoText, TimeString(m))),
          Msg("Reset Time", "Updating...."))
          EXCEPT !.cfg.displayUpdateNeeded = FALSE, !.g.g_serial_index = 0]
  ELSE m

\* subState 14: acknowledged, back to the main menu with Select.
CfgTimeDone(m, in) ==
  LET a == CfgDraw(m, Msg("Settings Updated", "Press ok to exit"))
  IN IF CfgSelectReleased(a, in)
     THEN [DisplayMenu([a EXCEPT !.cfg.subState = 0, !.g.menuState = 0])
             EXCEPT !.cfg.displayUpdateNeeded = TRUE]
     ELSE a

\* The split of the nets value at ';' into at most MAX_NETS names of at
\* most NET_NAME_SIZE - 1 characters; st = [nets, idx, tmp].
RECURSIVE SplitNets(_, _)
SplitNets(p, st) ==
  IF p = << >> \/ st.idx >= MAX_NETS
  THEN IF st.tmp # << >> /\ st.idx < MAX_NETS
       THEN [st EXCEPT !.nets[st.idx + 1] = st.tmp, !.idx = @ + 1, !.tmp = << >>]
       ELSE st
  ELSE IF Head(p) = ";"
       THEN SplitNets(Tail(p), [st EXCEPT !.nets[st.idx + 1] = st.tmp,
                                          !.idx = @ + 1, !.tmp = << >>])
       ELSE SplitNets(Tail(p),
                      IF Len(st.tmp) < NET_NAME_SIZE - 1
                      THEN [st EXCEPT !.tmp = Append(@, Head(p))] ELSE st)

NoNets == << << >>, << >>, << >> >>

\* A '}' arrived while scanning: take the nets of the reply, if any.
CfgNetsReply(m) ==
  LET r == ExtractValue(m.g.g_serial_buffer, <<"n", "e", "t", "s">>, MAX_EXTRACT_BUFFER)
      st == SplitNets(r.value, [nets |-> m.cfg.nets, idx |-> 0, tmp |-> << >>])
      a == IF r.found
           THEN [m EXCEPT !.g.g_temp_extract_buffer = r.value,
                          !.cfg.nets = st.nets,
                          !.cfg.netsCount = st.idx,
                          !.cfg.displayUpdateNeeded = TRUE]
           ELSE m
  IN [a EXCEPT !.g.g_serial_index = 0]

CfgNetsRead(m) ==
  LET ends == {i \in 1..Len(m.rx) : m.rx[i] = "}"}
  IN IF ends = {} THEN AfterBytes(m, Len(m.rx), FALSE)
     ELSE CfgNetsReply(AfterBytes(m, First(ends), FALSE))

\* The scan_wifi request, sent while no network is known.
CfgStartScan(m) ==
  IF m.cfg.displayUpdateNeeded /\ m.cfg.netsCount = 0
  THEN [PrintScreen(
          SerialSend(m, SendSerialJson(<<"s", "c", "a", "n", "_", "w", "i", "f", "i">>,
                                       NoText, NoText, NoText, NoText, NoText)),
          Msg("Scanning WiFi", "Please wait..."))
          EXCEPT !.g.g_serial_index = 0, !.g.g_serial_buffer = << >>,
                 !.cfg.nets = NoNets, !.cfg.netsCount = 0, !.cfg.selectedNet = 0,
                 !.cfg.scanStart = 0, !.cfg.displayUpdateNeeded = FALSE]
  ELSE m

\* The list of networks: navigation and choice.
CfgPickNet(m, in) ==
  LET a == IF CfgUpPressed(m, in)
           THEN [m EXCEPT !.cfg.selectedNet = IF @ = 0 THEN m.cfg.netsCount - 1 ELSE @ - 1,
                          !.cfg.displayUpdateNeeded = TRUE]
           ELSE IF CfgDownPressed(m, in)
           THEN [m EXCEPT !.cfg.selectedNet = (@ + 1) % m.cfg.netsCount,
                          !.cfg.displayUpdateNeeded = TRUE]
           ELSE m
  IN IF CfgSelectReleased(a, in)
     THEN [CfgGoto(a, 32) EXCEPT
             !.g.wifiChosenSSID = StrNCpy(a.cfg.nets[a.cfg.selectedNet + 1], WIFI_SSID_SIZE),
             !.cfg.inputReady = FALSE,
             !.cfg.localLastSelectState = HIGH]
     ELSE CfgShadow(
            CfgDraw(a, Screen(
              <<">">> \o Take(a.cfg.nets[a.cfg.selectedNet + 1], LCD_LINE_SIZE - 2),
              <<" ">> \o Take(a.cfg.nets[((a.cfg.selectedNet + 1) % a.cfg.netsCount) + 1],
                              LCD_LINE_SIZE - 2))),
            in)

\* subState 31: scan for networks.
CfgScanned(a, in) ==
  IF a.cfg.netsCount = 0 /\ a.cfg.scanStart > SERIAL_TIMEOUT
  THEN CfgGoto(a, 34)
  ELSE IF a.cfg.netsCount > 0 THEN CfgPickNet(a, in)
  ELSE CfgShadow(a, in)

CfgScanWifi(m, in) == CfgScanned(CfgNetsRead(CfgStartScan(m)), in)

\* subState 32: the passphrase of a scanned network.
CfgPassInit(m) ==
  IF m.cfg.pwdInit32
  THEN [m EXCEPT !.cfg.charIndex32 = 0, !.cfg.currentLetter32 = CharAt(0),
                 !.cfg.pwdPos32 = 0, !.cfg.passwordBuff = << >>,
                 !.cfg.displayUpdateNeeded = TRUE, !.cfg.pwdInit32 = FALSE,
                 !.cfg.localLastSelectState = HIGH]
  ELSE m

CfgPassScroll(m, in) ==
  IF m.cfg.lastCharUpdateTime > CHAR_SCROLL_DELAY /\ Scrolls(in)
  THEN LET i == ScrollIndex(m.cfg.charIndex32, in)
       IN [m EXCEPT !.cfg.charIndex32 = i, !.cfg.currentLetter32 = CharAt(i),
                    !.cfg.lastCharUpdateTime = 0, !.cfg.displayUpdateNeeded = TRUE]
  ELSE m

\* The append that takes one character more than there is room for.
CfgPassAppendOver(m) ==
  IF m.cfg.pwdPos32 <= WIFI_BUFF_SIZE - 1
  THEN [m EXCEPT !.cfg.passwordBuff = PutChar(@, m.cfg.pwdPos32, m.cfg.currentLetter32),
                 !.cfg.pwdPos32 = @ + 1,
                 !.cfg.charIndex32 = 0, !.cfg.currentLetter32 = CharAt(0),
                 !.cfg.displayUpdateNeeded = TRUE]
  ELSE m

CfgPassAppend(m) ==
  IF m.cfg.pwdPos32 < WIFI_BUFF_SIZE - 1
  THEN [m EXCEPT !.cfg.passwordBuff = PutChar(@, m.cfg.pwdPos32, m.cfg.currentLetter32),
                 !.cfg.pwdPos32 = @ + 1,
                 !.cfg.charIndex32 = 0, !.cfg.currentLetter32 = CharAt(0),
                 !.cfg.displayUpdateNeeded = TRUE]
  ELSE m

CfgPassDone(m) ==
  [CfgGoto(m, 33) EXCEPT
     !.g.wifiChosenPass = StrNCpy(m.cfg.passwordBuff, WIFI_PASS_SIZE),
     !.cfg.pwdInit32 = TRUE]

CfgPassDraw(m) ==
  CfgDraw(m, Screen(<<"PW: ">> \o Take(m.cfg.passwordBuff, LCD_LINE_SIZE - 1 - 4),
                    <<"P:", ToString(m.cfg.pwdPos32 + 1), " Chr:<",
                      m.cfg.currentLetter32, ">">>))

CfgEnterPass(m, in) ==
  IF ~m.cfg.inputReady
  THEN IF in.select = HIGH
       THEN [m EXCEPT !.cfg.inputReady = TRUE, !.cfg.pwdInit32 = TRUE]
       ELSE m
  ELSE LET a == CfgPassScroll(CfgPassInit(m), in)
       IN IF CfgSelectReleased(a, in) /\ a.cfg.currentLetter32 = TERMINATOR
          THEN CfgPassDone(a)
          ELSE CfgShadow(
                 CfgPassDraw(IF CfgSelectReleased(a, in) THEN CfgPassAppend(a) ELSE a),
                 in)

\* subState 33: the wifi request, sent once, then its reply.
CfgSendWifi(m) ==
  IF m.cfg.displayUpdateNeeded
  THEN [PrintScreen(SerialSend(m, SendWifiJson(m.g.wifiChosenSSID, m.g.wifiChosenPass)),
                    Msg("WiFi", "Connecting..."))
          EXCEPT !.g.g_serial_index = 0, !.g.g_serial_buffer = << >>,
                 !.cfg.wifiTxTime = 0, !.cfg.displayUpdateNeeded = FALSE]
  ELSE m

CfgWifiReply(m) ==
  IF StrStr(m.g.g_serial_buffer, Quoted(<<"m", "d">>) \o <<":">> \o Quoted(<<"w", "i", "f", "i">>))
     /\ StrStr(m.g.g_serial_buffer, RsltIs(<<"C">>))
  THEN [PrintScreen(m, Msg("wifi connected", "Press ok to exit")) EXCEPT !.cfg.subState = 36]
  ELSE [PrintScreen(m, Msg("error connecting", "Press ok to exit")) EXCEPT !.cfg.subState = 36]

\* ret: the function returned from inside the loop.
CfgWifiRead(m) ==
  LET ends == {i \in 1..Len(m.rx) : m.rx[i] = "}"}
  IN IF ends = {} THEN [m |-> AfterBytes(m, Len(m.rx), FALSE), ret |-> FALSE]
     ELSE [m |-> CfgWifiReply(AfterBytes(m, First(ends), FALSE)), ret |-> TRUE]

CfgConnect(m, in) ==
  LET r == CfgWifiRead(CfgSendWifi(m))
  IN IF r.ret THEN r.m
     ELSE IF r.m.cfg.wifiTxTime > SERIAL_TIMEOUT
     THEN CfgGoto(PrintScreen(r.m, Msg("error connecting", "Press ok to exit")), 36)
     ELSE CfgShadow(r.m, in)

\* subState 34: the network name, entered by hand.
CfgSsidInit(m) ==
  IF m.cfg.ssidInit
  THEN [m EXCEPT !.cfg.manualSSID = << >>, !.g.wifiChosenSSID = << >>,
                 !.cfg.charIndex34 = 0, !.cfg.currentLetter34 = CharAt(0),
                 !.cfg.ssidPos = 0, !.cfg.displayUpdateNeeded = TRUE,
                 !.cfg.ssidInit = FALSE, !.cfg.okCountSS = 0]
  ELSE m

CfgSsidScroll(m, in) ==
  IF m.cfg.lastCharUpdateTime > CHAR_SCROLL_DELAY /\ Scrolls(in)
  THEN LET i == ScrollIndex(m.cfg.charIndex34, in)
       IN [m EXCEPT !.cfg.charIndex34 = i, !.cfg.currentLetter34 = CharAt(i),
                    !.cfg.lastCharUpdateTime = 0, !.cfg.okCountSS = 0,
                    !.cfg.displayUpdateNeeded = TRUE]
  ELSE m

CfgSsidDone(m) ==
  CfgShadowHigh([CfgGoto(m, 35) EXCEPT
                   !.g.wifiChosenSSID = StrNCpy(m.cfg.manualSSID, WIFI_SSID_SIZE)])

\* The append that leaves the candidate where it is.
CfgSsidAppendKeeps(m) ==
  LET a == IF m.cfg.ssidPos < WIFI_SSID_SIZE - 1
           THEN [m EXCEPT !.cfg.manualSSID = PutChar(@, m.cfg.ssidPos, m.cfg.currentLetter34),
                          !.cfg.ssidPos = @ + 1]
           ELSE m
  IN [a EXCEPT !.cfg.okCountSS = 1, !.cfg.displayUpdateNeeded = TRUE]

CfgSsidAppend(m) ==
  LET a == IF m.cfg.ssidPos < WIFI_SSID_SIZE - 1
           THEN [m EXCEPT !.cfg.manualSSID = PutChar(@, m.cfg.ssidPos, m.cfg.currentLetter34),
                          !.cfg.ssidPos = @ + 1]
           ELSE m
  IN [a EXCEPT !.cfg.charIndex34 = 0, !.cfg.currentLetter34 = CharAt(0),
               !.cfg.okCountSS = 1, !.cfg.displayUpdateNeeded = TRUE]

CfgEnterSsid(m, in) ==
  LET a == CfgSsidScroll(CfgSsidInit(m), in)
  IN IF CfgSelectReleased(a, in)
        /\ (a.cfg.currentLetter34 = TERMINATOR \/ a.cfg.okCountSS = 1)
     THEN CfgSsidDone(a)
     ELSE LET b == IF CfgSelectReleased(a, in) THEN CfgSsidAppend(a) ELSE a
          IN CfgShadow(
               CfgDraw(b, Screen(<<"SSID: ">> \o Take(b.cfg.manualSSID, LCD_LINE_SIZE - 1 - 6),
                                 CharLine(b.cfg.okCountSS, b.cfg.ssidPos,
                                          b.cfg.currentLetter34))),
               in)

\* subState 35: the passphrase, entered by hand.
CfgManualPassInit(m) ==
  IF m.cfg.pwdInit35
  THEN [m EXCEPT !.cfg.passwordBuff = << >>, !.g.wifiChosenPass = << >>,
                 !.cfg.charIndex35 = 0, !.cfg.currentLetter35 = CharAt(0),
                 !.cfg.pwdPos35 = 0, !.cfg.displayUpdateNeeded = TRUE,
                 !.cfg.pwdInit35 = FALSE, !.cfg.okCount35 = 0]
  ELSE m

CfgManualPassScroll(m, in) ==
  IF m.cfg.lastCharUpdateTime > CHAR_SCROLL_DELAY /\ Scrolls(in)
  THEN LET i == ScrollIndex(m.cfg.charIndex35, in)
       IN [m EXCEPT !.cfg.charIndex35 = i, !.cfg.currentLetter35 = CharAt(i),
                    !.cfg.lastCharUpdateTime = 0, !.cfg.okCount35 = 0,
                    !.cfg.displayUpdateNeeded = TRUE]
  ELSE m

CfgManualPassDone(m) ==
  CfgShadowHigh([CfgGoto(m, 33) EXCEPT
                   !.g.wifiChosenPass = StrNCpy(m.cfg.passwordBuff, WIFI_PASS_SIZE)])

CfgManualPassAppend(m) ==
  LET a == IF m.cfg.pwdPos35 < WIFI_PASS_SIZE - 1
           THEN [m EXCEPT !.cfg.passwordBuff = PutChar(@, m.cfg.pwdPos35, m.cfg.currentLetter35),
                          !.cfg.pwdPos35 = @ + 1]
           ELSE m
  IN [a EXCEPT !.cfg.charIndex35 = 0, !.cfg.currentLetter35 = CharAt(0),
               !.cfg.okCount35 = 1, !.cfg.displayUpdateNeeded = TRUE]

CfgEnterManualPass(m, in) ==
  LET a == CfgManualPassScroll(CfgManualPassInit(m), in)
  IN IF CfgSelectReleased(a, in)
        /\ (a.cfg.currentLetter35 = TERMINATOR \/ a.cfg.okCount35 = 1)
     THEN CfgManualPassDone(a)
     ELSE LET b == IF CfgSelectReleased(a, in) THEN CfgManualPassAppend(a) ELSE a
          IN CfgShadow(
               CfgDraw(b, Screen(<<"Pass: ">> \o Take(b.cfg.passwordBuff, LCD_LINE_SIZE - 1 - 6),
                                 CharLine(b.cfg.okCount35, b.cfg.pwdPos35,
                                          b.cfg.currentLetter35))),
               in)

\* subState 36: the result screen, left with Select.
CfgWifiDone(m, in) ==
  LET a == [m EXCEPT !.cfg.displayUpdateNeeded = FALSE]
  IN IF CfgSelectReleased(a, in)
     THEN IF a.g.enteredDirectlyThisSession
          THEN [CfgShadowHigh(a) EXCEPT !.g.enteredDirectlyThisSession = FALSE,
                                        !.cfg.subState = 0,
                                        !.g.menuState = 0 - 2]
          ELSE [CfgShadowHigh(a) EXCEPT !.cfg.subState = 0,
                                        !.g.menuState = 3,
                                        !.cfg.settingsSelection = 0,
                                        !.cfg.displayUpdateNeeded = TRUE]
     ELSE CfgShadow(a, in)

Settings(m, in) ==
  IF m.g.menuState # 3 THEN CfgReset(m)
  ELSE LET a == CfgEntry(m)
       IN CASE a.cfg.subState = 0 -> CfgOptions(a, in)
            [] a.cfg.subState = 30 -> CfgShadow(CfgWaitRelease(a, in), in)
            [] a.cfg.subState = 11 -> CfgShadow(CfgSetTime(a, in), in)
            [] a.cfg.subState = 12 -> CfgShadow(CfgConfirmTime(a, in), in)
            [] a.cfg.subState = 13 -> CfgShadow(CfgTimeRead(CfgSendTime(a)), in)
            [] a.cfg.subState = 14 -> CfgShadow(CfgTimeDone(a, in), in)
            [] a.cfg.subState = 31 -> CfgScanWifi(a, in)
            [] a.cfg.subState = 32 -> CfgEnterPass(a, in)
            [] a.cfg.subState = 33 -> CfgConnect(a, in)
            [] a.cfg.subState = 34 -> CfgEnterSsid(a, in)
            [] a.cfg.subState = 35 -> CfgEnterManualPass(a, in)
            [] a.cfg.subState = 36 -> CfgWifiDone(a, in)

(***************************************************************************)
(* The control loop                                                        *)
(***************************************************************************)
\* The mode dispatch of loop().
Dispatch(m, in) ==
  CASE m.g.menuState = 0 - 3 \/ m.g.menuState = 0 - 2 -> HandleAuthentication(m, in)
    [] m.g.menuState = 0 -> m
    [] m.g.menuState = 1 -> AddUser(m, in)
    [] m.g.menuState = 2 -> DeleteUser(m, in)
    [] m.g.menuState = 3 -> Settings(m, in)
    [] OTHER -> [m EXCEPT !.g.menuState = 0 - 2]

\* One iteration of loop(); in: the pin levels, the tag and the link pin
\* as this iteration reads them.
Loop(m, in) ==
  LET a == IF m.g.menuState > 0 - 1 THEN HandleInput(m, in) ELSE m
  IN Advance(DoorUpdate(IndicatorUpdate(Dispatch(a, in), in.wifi), in.reed),
             LOOP_DELAY)

\* Bytes from the host reach the receive queue between iterations.
Receive(m, host) == [m EXCEPT !.rx = @ \o host]

(***************************************************************************)
(* The ESP32 gateway: JSON documents                                       *)
(***************************************************************************)
\* A JSON value as ArduinoJson holds it: a string, an object with its
\* members in order, a number or literal, or null.  Every value has the same
\* fields so that values of different kinds compare.
JsonNull == [t |-> "null", s |-> << >>, k |-> << >>, v |-> << >>]
JsonStr(s) == [t |-> "str", s |-> s, k |-> << >>, v |-> << >>]
JsonRaw(s) == [t |-> "raw", s |-> s, k |-> << >>, v |-> << >>]
JsonObj(ks, vs) == [t |-> "obj", s |-> << >>, k |-> ks, v |-> vs]

JsonFail == [ok |-> FALSE, at |-> 0, val |-> JsonNull]
JsonDone(at, val) == [ok |-> TRUE, at |-> at, val |-> val]

JsonSpace == {" ", "\t", "\r", "\n"}
JsonDigits == {"0", "1", "2", "3", "4", "5", "6", "7", "8", "9"}
JsonLiterals == {<<"t", "r", "u", "e">>, <<"f", "a", "l", "s", "e">>,
                 <<"n", "u", "l", "l">>}

\* The first index from i on that holds no white space.
SkipSpace(s, i) ==
  LET rest == {j \in i..Len(s) : s[j] \notin JsonSpace}
  IN IF rest = {} THEN Len(s) + 1 ELSE First(rest)

\* A string that opens at s[i]; the texts put to the gateway hold no escape.
JsonString(s, i) ==
  LET closing == {j \in (i + 1)..Len(s) : s[j] = Q}
  IN IF closing = {} THEN JsonFail
     ELSE JsonDone(First(closing) + 1,
                   JsonStr(SubSeq(s, i + 1, First(closing) - 1)))

\* A number or literal that starts at s[i].
JsonBare(s, i) ==
  LET stops == {j \in i..Len(s) : s[j] \in JsonSpace \cup {",", "}", ":", Q, "{"}}
      end == IF stops = {} THEN Len(s) + 1 ELSE First(stops)
      word == SubSeq(s, i, end - 1)
  IN IF end > i /\ (word \in JsonLiterals \/ \A j \in 1..Len(word) : word[j] \in JsonDigits)
     THEN JsonDone(end, JsonRaw(word))
     ELSE JsonFail

RECURSIVE JsonValue(_, _)
RECURSIVE JsonMembers(_, _, _, _)
\* The value that starts at or after s[from].
JsonValue(s, from) ==
  LET i == SkipSpace(s, from)
  IN IF i > Len(s) THEN JsonFail
     ELSE IF s[i] = Q THEN JsonString(s, i)
     ELSE IF s[i] = "{"
     THEN LET j == SkipSpace(s, i + 1)
          IN IF j <= Len(s) /\ s[j] = "}"
             THEN JsonDone(j + 1, JsonObj(<< >>, << >>))
             ELSE JsonMembers(s, j, << >>, << >>)
     ELSE JsonBare(s, i)

\* The members of an object from the key at s[i] to the closing brace.
JsonMembers(s, i, ks, vs) ==
  IF i > Len(s) \/ s[i] # Q THEN JsonFail
  ELSE LET key == JsonString(s, i)
           colon == SkipSpace(s, key.at)
           val == JsonValue(s, colon + 1)
           next == SkipSpace(s, val.at)
       IN IF ~key.ok THEN JsonFail
          ELSE IF colon > Len(s) \/ s[colon] # ":" THEN JsonFail
          ELSE IF ~val.ok THEN JsonFail
          ELSE IF next > Len(s) THEN JsonFail
          ELSE IF s[next] = "}"
          THEN JsonDone(next + 1, JsonObj(Append(ks, key.val.s), Append(vs, val.val)))
          ELSE IF s[next] = ","
          THEN JsonMembers(s, SkipSpace(s, next + 1),
                           Append(ks, key.val.s), Append(vs, val.val))
          ELSE JsonFail

\* deserializeJson(doc, text): ok is FALSE where the code's err is set.  The
\* documents are far below the capacity of the StaticJsonDocument.
DeserializeJson(text) == JsonValue(text, 1)

RECURSIVE JsonText(_)
RECURSIVE JsonJoin(_, _)
\* serializeJson(value, out): the compact text, with no white space.
JsonText(val) ==
  IF val.t = "str" THEN Quoted(val.s)
  ELSE IF val.t = "raw" THEN val.s
  ELSE IF val.t = "obj" THEN <<"{">> \o JsonJoin(val.k, val.v) \o <<"}">>
  ELSE <<"n", "u", "l", "l">>

JsonJoin(ks, vs) ==
  IF ks = << >> THEN << >>
  ELSE Quoted(Head(ks)) \o <<":">> \o JsonText(Head(vs))
         \o (IF Len(ks) > 1 THEN <<",">> ELSE << >>)
         \o JsonJoin(Tail(ks), Tail(vs))

\* doc.containsKey(key)
ContainsKey(doc, key) == doc.t = "obj" /\ \E i \in 1..Len(doc.k) : doc.k[i] = key
\* doc[key]
Member(doc, key) ==
  IF ContainsKey(doc, key)
  THEN doc.v[First({i \in 1..Len(doc.k) : doc.k[i] = key})]
  ELSE JsonNull
\* doc[key].as<const char*>() # nullptr
IsText(val) == val.t = "str"

(***************************************************************************)
(* The ESP32 gateway: handlers                                             *)
(***************************************************************************)
client_name == <<"e", "s", "p", "_", "c", "l", "i", "e", "n", "t">>
target_name == <<"d", "b", "_", "c", "l", "i", "e", "n", "t">>
MdWifi == <<"w", "i", "f", "i">>
MdScanWifi == <<"s", "c", "a", "n", "_", "w", "i", "f", "i">>

\* The gateway after setup(): up is WiFi.status() == WL_CONNECTED when the
\* first connection attempt is over.  serial is what the terminal has
\* written and the gateway has not read; written and sent are the bytes put
\* on the serial line and the texts given to the WebSocket by the last
\* handler; heard is the observer's note of what that handler was given.
InitGw(up) ==
  [storedSSID |-> <<"w", "i", "f", "i">>,
   storedPASS |-> <<"1", "2", "3", "4", "5", "6", "7", "8">>,
   prevWiFiStatus |-> up, statusPin |-> IF up THEN LOW ELSE HIGH,
   isConnected |-> FALSE,
   arduinoCommandBuffer |-> << >>, newCommandReceived |-> FALSE,
   serial |-> << >>, written |-> << >>, sent |-> << >>,
   heard |-> [kind |-> "setup", from |-> "", msg |-> 0,
              spaced |-> FALSE, cut |-> FALSE, line |-> << >>, owed |-> << >>]]

\* Serial.print(text)
GwPrint(w, text) == [w EXCEPT !.written = @ \o text]
\* sendWebSocketMessage(jsonPayload)
SendWebSocketMessage(w, text) ==
  IF w.isConnected THEN [w EXCEPT !.sent = Append(@, text)] ELSE w

\* webSocketEvent(WStype_TEXT, payload, length), with every sender let through
WebSocketTextAnySender(w, payload) ==
  LET in_doc == DeserializeJson(payload)
  IN IF ~in_doc.ok THEN w
     ELSE IF ContainsKey(in_doc.val, <<"f", "r", "o", "m">>)
     THEN IF ContainsKey(in_doc.val, <<"m", "s", "g">>)
          THEN GwPrint(w, JsonText(Member(in_doc.val, <<"m", "s", "g">>)) \o <<"\n">>)
          ELSE w
     ELSE w

\* webSocketEvent(WStype_TEXT, payload, length)
WebSocketText(w, payload) ==
  LET in_doc == DeserializeJson(payload)
      from == Member(in_doc.val, <<"f", "r", "o", "m">>)
  IN IF ~in_doc.ok THEN w
     ELSE IF /\ ContainsKey(in_doc.val, <<"f", "r", "o", "m">>)
             /\ (IF IsText(from) THEN from.s ELSE << >>) = target_name
     THEN IF ContainsKey(in_doc.val, <<"m", "s", "g">>)
          THEN GwPrint(w, JsonText(Member(in_doc.val, <<"m", "s", "g">>)) \o <<"\n">>)
          ELSE w
     ELSE w

\* webSocketEvent(WStype_CONNECTED, ...): the line goes low and the gateway
\* registers with the server.
WebSocketConnected(w) ==
  SendWebSocketMessage([w EXCEPT !.statusPin = LOW, !.isConnected = TRUE],
    JsonText(JsonObj(<<<<"t", "y", "p", "e">>, <<"n", "a", "m", "e">>>>,
                     <<JsonStr(<<"r", "e", "g", "i", "s", "t", "e", "r">>),
                       JsonStr(client_name)>>)))

\* webSocketEvent(WStype_DISCONNECTED, ...)
WebSocketDisconnected(w) == [w EXCEPT !.statusPin = HIGH, !.isConnected = FALSE]

\* readArduinoSerial(): up to and with the first newline.
ReadArduinoSerial(w) ==
  LET ends == {i \in 1..Len(w.serial) : w.serial[i] = "\n"}
  IN IF ends = {}
     THEN [w EXCEPT !.arduinoCommandBuffer = @ \o w.serial, !.serial = << >>]
     ELSE [w EXCEPT !.arduinoCommandBuffer = @ \o SubSeq(w.serial, 1, First(ends) - 1),
                    !.serial = SubSeq(w.serial, First(ends) + 1, Len(w.serial)),
                    !.newCommandReceived = TRUE]

\* String::trim()
Trim(s) ==
  LET kept == {i \in 1..Len(s) : s[i] \notin JsonSpace}
  IN IF kept = {} THEN << >>
     ELSE SubSeq(s, First(kept), CHOOSE i \in kept : \A j \in kept : j <= i)

\* handleScanWifi(): nets is the list the scan makes of the networks in range.
HandleScanWifi(w, nets) ==
  GwPrint([w EXCEPT !.serial = << >>],
    JsonText(JsonObj(<<<<"m", "d">>, <<"n", "e", "t", "s">>>>,
                     <<JsonStr(MdScanWifi), JsonStr(nets)>>)) \o <<"\r", "\n">>)

\* The wifi branch of processArduinoCommand(): joins is the outcome of
\* connectToWiFi().
HandleWifi(w, doc, joins) ==
  LET newSsid == Member(doc, <<"S", "S", "I", "D">>)
      newPass == Member(doc, <<"P", "A", "S", "S">>)
      saves == IsText(newSsid) /\ Len(newSsid.s) > 0
      rslt == IF saves THEN (IF joins THEN <<"C">> ELSE <<"N", "C">>)
              ELSE <<"E", "R", "R">>
  IN GwPrint(IF saves
             THEN [w EXCEPT !.storedSSID = newSsid.s,
                            !.storedPASS = IF IsText(newPass) THEN newPass.s ELSE << >>]
             ELSE w,
       JsonText(JsonObj(<<<<"m", "d">>, <<"r", "s", "l", "t">>>>,
                        <<JsonStr(MdWifi), JsonStr(rslt)>>)) \o <<"\n">>)

\* processArduinoCommand()
ProcessArduinoCommand(w, joins, nets) ==
  IF ~w.newCommandReceived THEN w
  ELSE LET cleaned == Trim(w.arduinoCommandBuffer)
           a == [w EXCEPT !.arduinoCommandBuffer = << >>, !.newCommandReceived = FALSE]
           doc == DeserializeJson(cleaned)
           md == Member(doc.val, <<"m", "d">>)
       IN IF ~doc.ok THEN a
          ELSE IF IsText(md) /\ md.s = MdWifi THEN HandleWifi(a, doc.val, joins)
          ELSE IF IsText(md) /\ md.s = MdScanWifi THEN HandleScanWifi(a, nets)
          ELSE SendWebSocketMessage(a,
                 JsonText(JsonObj(<<<<"t", "o">>, <<"m", "s", "g">>>>,
                                  <<JsonStr(target_name),
                                    IF doc.val.t = "obj" THEN doc.val ELSE JsonNull>>)))

\* The watchdog at the end of loop(): cur is WiFi.status() == WL_CONNECTED.
WifiWatchdog(w, cur) ==
  IF cur # w.prevWiFiStatus
  THEN [w EXCEPT !.statusPin = IF cur THEN LOW ELSE HIGH, !.prevWiFiStatus = cur]
  ELSE w

\* One pass of the gateway's loop() after webSocket.loop() has delivered its
\* events.
GwLoop(w, joins, nets, cur) ==
  WifiWatchdog(ProcessArduinoCommand(ReadArduinoSerial(w), joins, nets), cur)

\* The state after power-up and setup().
NUL == "NUL"

InitG ==
  [menuState |-> 0 - 2, currentSelection |-> 0,
   lastDebounceTime |-> 0, selectPressStart |-> NoStamp,
   entryPressStart |-> NoStamp, menuEntryTime |-> 0,
   isLongPressReturnActive |-> FALSE,
   lastUpState |-> HIGH, lastDownState |-> HIGH, lastSelectState |-> HIGH,
   g_serial_buffer |-> << >>, g_serial_index |-> 0,
   g_temp_extract_buffer |-> << >>,
   doorForceUnlock |-> FALSE, doorOpened |-> FALSE, doorLockTimer |-> NoStamp,
   wifiConnected |-> FALSE, requestDirectWifiEntry |-> FALSE,
   enteredDirectlyThisSession |-> FALSE,
   wifiChosenSSID |-> << >>, wifiChosenPass |-> << >>,
   mainScanDisplayDrawn |-> FALSE,
   rejectLedEndTime |-> 0 - 1, doubleBeepTimer |-> 0,
   doubleBeepStage |-> FALSE, doubleBeepActive |-> FALSE,
   wifiTimer |-> 0, wifiBlink |-> FALSE]

InitAuth ==
  [authSubState |-> 0, authUserId |-> << >>, authStartTime |-> 0,
   displayRunOnce |-> FALSE, authSelectPressStart |-> NoStamp]

InitScan ==
  [subState |-> 0, transactionStartTime |-> 0, stage2Ready |-> FALSE,
   userName |-> << >>, actionType |-> << >>, timeValue |-> << >>,
   durationValue |-> << >>, retryValue |-> << >>]

InitAdd ==
  [subState |-> 0, userId |-> << >>, userName |-> << >>,
   userTitle |-> TITLE_ADMIN, nameCharIndex |-> 0, okPressCount |-> 0,
   isTitleAdmin |-> TRUE, displayUpdateNeeded |-> TRUE,
   lastCharUpdateTime |-> 0,
   localLastUpState |-> HIGH, localLastDownState |-> HIGH,
   localLastSelectState |-> HIGH,
   nameInit |-> TRUE, charIndex |-> 0, currentLetter |-> NUL]

InitDel ==
  [subState |-> 0, scannedUserId |-> << >>, displayUpdateNeeded |-> TRUE,
   localLastUpState |-> HIGH, localLastDownState |-> HIGH,
   localLastSelectState |-> HIGH]

InitCfg ==
  [subState |-> 0, settingsSelection |-> 0,
   hours |-> 0, minutes |-> 0, seconds |-> 0, timeGroupIndex |-> 0,
   displayUpdateNeeded |-> TRUE, inputReady |-> FALSE,
   localLastUpState |-> HIGH, localLastDownState |-> HIGH,
   localLastSelectState |-> HIGH,
   nets |-> NoNets, netsCount |-> 0, selectedNet |-> 0, scanStart |-> 0,
   manualSSID |-> << >>, passwordBuff |-> << >>,
   lastCharUpdateTime |-> 0, wifiInit |-> TRUE, wifiTxTime |-> 0,
   pwdInit32 |-> TRUE, charIndex32 |-> 0, currentLetter32 |-> NUL,
   pwdPos32 |-> 0,
   ssidInit |-> TRUE, charIndex34 |-> 0, currentLetter34 |-> CharAt(0),
   ssidPos |-> 0, okCountSS |-> 0,
   pwdInit35 |-> TRUE, charIndex35 |-> 0, currentLetter35 |-> CharAt(0),
   pwdPos35 |-> 0, okCount35 |-> 0]

InitIo ==
  [accept |-> LOW, reject |-> LOW, wifiLed |-> LOW,
   lcd |-> Screen(<< >>, << >>), tx |-> << >>, tones |-> 0]

\* The observer's notes on the codec: the fields handed to the encoder and
\* what the decoder returned for a key.
NoFields ==
  [md |-> NoText, id |-> NoText, un |-> NoText, ut |-> NoText,
   opt |-> NoText, tm |-> NoText]
NoGot == [key |-> "", found |-> FALSE, value |-> NoText]

InitObs ==
  [up |-> HIGH, select |-> HIGH, reed |-> HIGH,
   idleHold |-> NoStamp, hold |-> NoStamp, holdDue |-> FALSE,
   sinceRequest |-> NoStamp, replyBytes |-> << >>,
   script |-> FALSE, target |-> << >>, confirmed |-> 0,
   fields |-> NoFields, got |-> NoGot, upActed |-> NoStamp,
   probe |-> "", selHeld |-> NoStamp, selSeen |-> NoStamp,
   latched |-> FALSE, longSeen |-> FALSE,
   down |-> HIGH, lastKind |-> NoText, quiet |-> FALSE, repeat |-> FALSE,
   shown |-> NoStamp, sinceReply |-> NoStamp, sinceArmed |-> NoStamp,
   sinceSwitch |-> NoStamp, late |-> FALSE, picked |-> FALSE,
   pressed |-> FALSE, beep |-> "", sinceTone |-> NoStamp,
   link |-> LOW, sinceLink |-> NoStamp, flipAge |-> NoStamp,
   door |-> ""]

Init ==
  /\ obs = InitObs
  /\ g = InitG
  /\ auth = InitAuth
  /\ scan = InitScan
  /\ add = InitAdd
  /\ del = InitDel
  /\ cfg = InitCfg
  /\ io = InitIo
  /\ rx = << >>
  /\ gw = InitGw(FALSE)

(***************************************************************************)
(* Environment: the operator, the tags, the sensors and the host           *)
(***************************************************************************)
\* Bounds of the explored behaviours.
\* Most characters typed into one text entry.
MaxTyped == 1
\* Farthest the candidate is scrolled from the start of the alphabet.
MaxScroll == 1
\* Farthest a group of the reset time is moved from 00.
MaxAdjust == 1
\* Most characters accumulated in the reply buffer.
MaxBuf == 48

UID1 == <<4, 161, 178, 195>>

Pair(k, v) == Quoted(k) \o <<":">> \o Quoted(v)
Line(body) == <<"{">> \o body \o <<"}", "\n">>

AdminLine == Line(Pair(KeyRslt, <<"a", "d", "m", "i", "n">>))
UserLine == Line(Pair(KeyRslt, <<"u", "s", "e", "r">>))
FoundLine == Line(Pair(KeyRslt, <<"F">>))
NotFoundLine == Line(Pair(KeyRslt, <<"N", "F">>))
AddedLine == Line(Pair(KeyRslt, <<"A">>))
DeletedLine == Line(Pair(KeyRslt, <<"D", "L">>))
DoneLine == Line(Pair(KeyRslt, <<"D">>))
EmptyLine == <<"\n">>
OtherLine == Line(Pair(<<"x">>, <<"y">>))
\* As many characters as the reply buffer holds, none of them of a reply.
JunkLine == [i \in 1..(MAX_GLOBAL_BUFFER_SIZE - 1) |-> "x"]
\* The beginning of a reply that is never completed.
PartLine == <<"{", Q, "n", "m", Q>>
InLine ==
  Line(Pair(<<"n", "m">>, <<"A", "l">>) \o <<",">>
       \o Pair(<<"a", "c", "t">>, ACT_IN) \o <<",">>
       \o Pair(<<"t", "m">>, <<"0", "8", ":", "1", "5">>))
OutLine ==
  Line(Pair(<<"n", "m">>, <<"A", "l">>) \o <<",">>
       \o Pair(<<"a", "c", "t">>, ACT_OUT) \o <<",">>
       \o Pair(<<"t", "m">>, <<"1", "7", ":", "0", "0">>) \o <<",">>
       \o Pair(<<"d", "u", "r">>, <<"0", "8", ":", "4", "5">>))
FailLine ==
  Line(Pair(<<"n", "m">>, <<"A", "l">>) \o <<",">>
       \o Pair(<<"a", "c", "t">>, ACT_FAIL) \o <<",">>
       \o Pair(<<"r", "t", "r">>, <<"0", "0", ":", "0", "5">>))
\* An entry reported without its time.
BareInLine ==
  Line(Pair(<<"n", "m">>, <<"A", "l">>) \o <<",">>
       \o Pair(<<"a", "c", "t">>, ACT_IN))
\* A decision the terminal does not know.
UnknownLine ==
  Line(Pair(<<"n", "m">>, <<"A", "l">>) \o <<",">>
       \o Pair(<<"a", "c", "t">>, <<"X", "X">>))
NetsLine == Line(Pair(<<"n", "e", "t", "s">>, <<"a", ";", "b">>))
\* The host found no network.
NoNetsLine == Line(Pair(<<"n", "e", "t", "s">>, << >>))
WifiOkLine ==
  Line(Pair(<<"m", "d">>, <<"w", "i", "f", "i">>) \o <<",">> \o Pair(KeyRslt, <<"C">>))

Silence == << >>

\* The mode is waiting for the reply to a request it sent.
Awaiting(m) ==
  \/ m.g.menuState = 0 - 3 /\ m.auth.authSubState = 1
  \/ m.g.menuState = 0 - 2 /\ m.scan.subState = 1
  \/ m.g.menuState = 1 /\ m.add.subState \in {1, 4}
  \/ m.g.menuState = 2 /\ m.del.subState \in {1, 3}
  \/ m.g.menuState = 3 /\ m.cfg.subState \in {13, 31, 33}

\* What the host may send while the terminal awaits a reply.
Replies(m) ==
  CASE m.g.menuState = 0 - 3 ->
         {AdminLine, UserLine, EmptyLine, OtherLine, PartLine, InLine}
    [] m.g.menuState = 0 - 2 ->
         {InLine, OutLine, FailLine, NotFoundLine, OtherLine, PartLine, UnknownLine,
          BareInLine}
    [] m.g.menuState = 1 -> {FoundLine, NotFoundLine, AddedLine, JunkLine, InLine}
    [] m.g.menuState = 2 -> {FoundLine, NotFoundLine, DeletedLine, JunkLine, InLine}
    [] m.g.menuState = 3 -> {DoneLine, NetsLine, NoNetsLine, WifiOkLine}
    [] OTHER -> {}

NearStart(i, n, d) == i <= d \/ i >= n - d

\* The explored part of the state space.
\* lim: how far the operator goes in typing, scrolling and adjusting, and
\* how much the host sends in reply to one request.
Bounded(m, lim) ==
  /\ Len(m.g.g_serial_buffer) <= lim.buf
  /\ Len(m.obs.replyBytes) <= lim.seen
  /\ m.add.nameCharIndex <= lim.typed
  /\ m.cfg.pwdPos32 <= lim.typed
  /\ m.cfg.ssidPos <= lim.typed
  /\ m.cfg.pwdPos35 <= lim.typed
  /\ NearStart(m.add.charIndex, CHAR_TABLE_SIZE, lim.scroll)
  /\ NearStart(m.cfg.charIndex32, CHAR_TABLE_SIZE, lim.scroll)
  /\ NearStart(m.cfg.charIndex34, CHAR_TABLE_SIZE, lim.scroll)
  /\ NearStart(m.cfg.charIndex35, CHAR_TABLE_SIZE, lim.scroll)
  /\ NearStart(m.cfg.hours, 24, lim.adjust)
  /\ NearStart(m.cfg.minutes, 60, lim.adjust)
  /\ NearStart(m.cfg.seconds, 60, lim.adjust)

Limits ==
  [typed |-> MaxTyped, scroll |-> MaxScroll, adjust |-> MaxAdjust,
   buf |-> MaxBuf, seen |-> MaxBuf]

Pins(up, down, select, card, reed, wifi) ==
  [up |-> up, down |-> down, select |-> select, card |-> card,
   reed |-> reed, wifi |-> wifi]

\* What the observer notes when an iteration starts.
Watch(m, in, host) ==
  [m.obs EXCEPT
     !.up = in.up, !.select = in.select, !.reed = in.reed, !.down = in.down,
     !.link = IF m.obs.probe = "link" THEN in.wifi ELSE @,
     !.quiet = /\ @
               /\ in.card = << >>
               /\ in.up = HIGH /\ in.down = HIGH /\ in.select = HIGH
               /\ m.obs.up = HIGH /\ m.obs.down = HIGH /\ m.obs.select = HIGH,
     !.idleHold =
        IF m.g.menuState = 0 - 2 /\ in.up = LOW /\ in.select = LOW
        THEN (IF @ = NoStamp THEN 0 ELSE @) ELSE NoStamp,
     !.hold =
        IF in.up = LOW /\ in.select = LOW
        THEN (IF @ = NoStamp THEN 0 ELSE @) ELSE NoStamp,
     !.holdDue = FALSE,
     !.picked = @ /\ in.up = HIGH /\ in.down = HIGH,
     !.pressed = @ /\ in.up = HIGH /\ in.down = HIGH,
     !.selHeld = IF m.obs.probe = "select" /\ in.select = LOW
                 THEN (IF @ = NoStamp THEN 0 ELSE @) ELSE NoStamp,
     !.selSeen = IF m.obs.probe = "select"
                 THEN (IF in.select = LOW
                       THEN (IF m.obs.selHeld = NoStamp THEN 0 ELSE m.obs.selHeld)
                       ELSE IF m.obs.select = LOW THEN @ ELSE NoStamp)
                 ELSE NoStamp,
     !.latched = IF in.select = m.obs.select THEN in.select = LOW /\ @
                 ELSE in.select = HIGH /\ @,
     !.longSeen = IF in.select = m.obs.select THEN in.select = LOW /\ @
                  ELSE in.select = HIGH /\ @,
     !.confirmed =
        IF m.obs.script /\ m.g.menuState = 1 /\ m.add.subState = 2
           /\ m.obs.select = LOW /\ in.select = HIGH
        THEN @ + 1 ELSE @,
     !.sinceRequest =
        IF host # << >> \/ in.card # << >> \/ ~Awaiting(m)
           \/ in.up = LOW \/ in.down = LOW \/ in.select = LOW
        THEN NoStamp ELSE @]

\* The iteration acted on Up: it moved the selection of the main menu or
\* changed the title in Add User.
UpActed(before, after) ==
  \/ before.g.menuState = 0 /\ after.g.currentSelection # before.g.currentSelection
  \/ before.g.menuState = 1 /\ after.add.isTitleAdmin # before.add.isTitleAdmin

\* handleInput reported a long press of Select in the iteration.
LongReported(before, after) ==
  /\ before.g.menuState > 0 - 1
  /\ ~before.g.isLongPressReturnActive
  /\ after.g.isLongPressReturnActive

\* handleInput latched the press of Select in the iteration that first read
\* Select as LOW.
PressLatched(before, after) ==
  /\ before.g.menuState > 0 - 1
  /\ before.obs.select = HIGH
  /\ after.obs.select = LOW
  /\ after.g.selectPressStart # NoStamp

\* What the observer notes when an iteration ends: the time since the
\* start of the last iteration that acted on Up; of the press of Select
\* that is on, whether handleInput latched it when it began and whether it
\* was reported as a long press.
\* The text buffers of the four widgets.
Texts(m) ==
  <<m.add.userName, m.cfg.passwordBuff, m.cfg.manualSSID>>

\* The step the machine is at.
StepOf(m) == <<m.g.menuState, m.add.subState, m.cfg.subState>>

\* The text widget the machine is at: the name of Add User, the passphrase
\* of a scanned network, the network name and the passphrase entered by
\* hand.
Widgets == {"name", "pass", "ssid", "manual"}

At(m) ==
  IF m.g.menuState = 1 /\ m.add.subState = 2 THEN "name"
  ELSE IF m.g.menuState = 3 /\ m.cfg.subState = 32 THEN "pass"
  ELSE IF m.g.menuState = 3 /\ m.cfg.subState = 34 THEN "ssid"
  ELSE IF m.g.menuState = 3 /\ m.cfg.subState = 35 THEN "manual"
  ELSE ""

\* The statics of the widget w: buffer, write position, candidate and its
\* index, the most the buffer takes, whether the start of the widget is
\* pending, the level of Select the handler read last, and the step a
\* complete entry leads to.
View(m, w) ==
  CASE w = "name" ->
         [buf |-> m.add.userName, pos |-> m.add.nameCharIndex,
          letter |-> m.add.currentLetter, index |-> m.add.charIndex,
          cap |-> MAX_NAME_SIZE - 1,
          fresh |-> m.add.nameInit, last |-> m.add.localLastSelectState,
          next |-> <<1, 3, m.cfg.subState>>]
    [] w = "pass" ->
         [buf |-> m.cfg.passwordBuff, pos |-> m.cfg.pwdPos32,
          letter |-> m.cfg.currentLetter32, index |-> m.cfg.charIndex32,
          cap |-> WIFI_BUFF_SIZE - 1,
          fresh |-> m.cfg.pwdInit32 \/ ~m.cfg.inputReady,
          last |-> m.cfg.localLastSelectState,
          next |-> <<3, m.add.subState, 33>>]
    [] w = "ssid" ->
         [buf |-> m.cfg.manualSSID, pos |-> m.cfg.ssidPos,
          letter |-> m.cfg.currentLetter34, index |-> m.cfg.charIndex34,
          cap |-> WIFI_SSID_SIZE - 1,
          fresh |-> m.cfg.ssidInit, last |-> m.cfg.localLastSelectState,
          next |-> <<3, m.add.subState, 35>>]
    [] w = "manual" ->
         [buf |-> m.cfg.passwordBuff, pos |-> m.cfg.pwdPos35,
          letter |-> m.cfg.currentLetter35, index |-> m.cfg.charIndex35,
          cap |-> WIFI_PASS_SIZE - 1,
          fresh |-> m.cfg.pwdInit35, last |-> m.cfg.localLastSelectState,
          next |-> <<3, m.add.subState, 33>>]

\* The iteration that reads Select as level is a confirming press in the
\* widget the machine is at: the handler read Select pressed last time and
\* reads it released now.
Confirming(m, level) ==
  /\ At(m) # ""
  /\ ~View(m, At(m)).fresh
  /\ View(m, At(m)).last = LOW
  /\ level = HIGH

\* The iteration called beepTwice: the reply of an exchange was refused.
Refused(before, after) ==
  /\ before.g.menuState = 0 - 2
  /\ before.scan.subState = 1
  /\ \/ after.scan.subState = 5
     \/ after.scan.subState = 3 /\ after.scan.actionType = ACT_FAIL

\* The double beep as the observer expects it: after the trigger the gap,
\* over at the first iteration that starts DOUBLE_BEEP_GAP or more after
\* the one of the trigger; then the second tone, over at the first
\* iteration that starts DOUBLE_BEEP_TONE or more after the one that began
\* it.
GapOver(o) == o.beep = "gap" /\ o.sinceTone >= DOUBLE_BEEP_GAP
ToneOver(o) == o.beep = "tone" /\ o.sinceTone >= DOUBLE_BEEP_TONE

\* The link LED changed its level in an iteration that read the link as
\* down.
Flipped(before, after) ==
  after.obs.link = HIGH /\ after.io.wifiLed # before.io.wifiLed

\* doorUpdate armed the relock deadline.
Armed(before, after) ==
  before.g.doorLockTimer = NoStamp /\ after.g.doorLockTimer # NoStamp

\* The iteration called pulseAccept.
UnlockedIn(before, after) ==
  /\ before.scan.subState = 1
  /\ after.scan.subState \in {2, 3}
  /\ after.scan.actionType \in {ACT_IN, ACT_OUT}

Noted(before, after) ==
  [after EXCEPT
     !.obs.upActed = IF UpActed(before, after) THEN LOOP_DELAY ELSE @,
     !.obs.latched = IF after.obs.probe = "select" /\ PressLatched(before, after)
                     THEN TRUE ELSE @,
     !.obs.longSeen = IF after.obs.probe = "select" /\ LongReported(before, after)
                      THEN TRUE ELSE @,
     !.obs.picked = IF after.obs.probe # "widget" THEN @
                    ELSE IF StepOf(after) # StepOf(before) THEN FALSE
                    ELSE IF Texts(after) # Texts(before) THEN TRUE
                    ELSE @,
     !.obs.pressed = IF after.obs.probe # "widget" THEN @
                     ELSE IF StepOf(after) # StepOf(before) THEN FALSE
                     ELSE IF Confirming(before, after.obs.select) THEN TRUE
                     ELSE @,
     !.obs.beep = IF after.obs.probe # "beep" THEN @
                  ELSE IF Refused(before, after) THEN "gap"
                  ELSE IF GapOver(before.obs) THEN "tone"
                  ELSE IF ToneOver(before.obs) THEN ""
                  ELSE @,
     !.obs.sinceTone = IF after.obs.probe # "beep" THEN @
                       ELSE IF Refused(before, after) \/ GapOver(before.obs)
                       THEN LOOP_DELAY
                       ELSE IF ToneOver(before.obs) THEN NoStamp
                       ELSE @,
     !.obs.flipAge = IF after.obs.probe = "link" /\ Flipped(before, after)
                     THEN after.obs.sinceLink - LOOP_DELAY ELSE NoStamp,
     !.obs.sinceLink = IF after.obs.probe # "link" THEN @
                       ELSE IF after.obs.link = LOW \/ Flipped(before, after)
                       THEN LOOP_DELAY
                       ELSE @,
     !.obs.sinceSwitch = IF after.obs.probe = "guard"
                            /\ after.g.menuState # before.g.menuState
                         THEN LOOP_DELAY ELSE @,
     !.obs.sinceArmed = IF after.obs.probe = "door" /\ Armed(before, after)
                        THEN LOOP_DELAY ELSE @,
     !.obs.door = IF after.obs.probe # "door" THEN @
                  ELSE IF after.obs.reed = LOW /\ (@ # "" \/ UnlockedIn(before, after))
                  THEN "opened"
                  ELSE IF UnlockedIn(before, after) THEN "shut" ELSE @]

\* One iteration of the control loop and the time to the next one, which
\* starts period after this one.
StepAt(m, in, host, period) ==
  Advance(Noted(m, Loop([Receive(m, host) EXCEPT !.io.tx = << >>, !.io.tones = 0,
                                                 !.obs = Watch(m, in, host)], in)),
          period - LOOP_DELAY)

Step(m, in, host) == StepAt(m, in, host, LoopPeriod)

\* The machine m is the next state.
Becomes(m, lim) ==
  /\ Bounded(m, lim)
  /\ g' = m.g
  /\ auth' = m.auth
  /\ scan' = m.scan
  /\ add' = m.add
  /\ del' = m.del
  /\ cfg' = m.cfg
  /\ io' = m.io
  /\ rx' = m.rx
  /\ gw' = gw
  /\ obs' = m.obs

TickAt(in, host, lim, period) ==
  /\ host # Silence => (Len(rx) <= MaxRx /\ Awaiting(Machine)
                        /\ host \in Replies(Machine))
  /\ Becomes(StepAt(Machine, in, host, period), lim)

Tick(in, host, lim) == TickAt(in, host, lim, LoopPeriod)

Released == <<HIGH, HIGH, HIGH>>
UpHeld == <<LOW, HIGH, HIGH>>
DownHeld == <<HIGH, LOW, HIGH>>
SelectHeld == <<HIGH, HIGH, LOW>>
UpSelectHeld == <<LOW, HIGH, LOW>>

IDLE == 0 - 2
AUTH == 0 - 3
MENU == 0
ADD == 1
DELETE == 2
SETTINGS == 3

\* What the surroundings do while the terminal is in one mode: the button
\* levels the operator produces, the tags shown (only with the hands off the
\* buttons) and what the host answers.
Doing(presses, cards, hosts) ==
  [presses |-> presses, cards |-> cards, hosts |-> hosts]

\* An environment: per mode the operator goes to, what happens there; the
\* levels of the door sensor and of the link pin.
Env(at, reeds, links) == [at |-> at, reeds |-> reeds, links |-> links]

RunIn(E, lim) ==
  \E b \in E.at[g.menuState].presses,
     c \in E.at[g.menuState].cards \union {<< >>},
     r \in E.reeds, w \in E.links,
     host \in E.at[g.menuState].hosts \union {Silence} :
    /\ c # << >> => b = Released
    /\ Tick(Pins(b[1], b[2], b[3], c, r, w), host, lim)
    /\ g'.menuState \in DOMAIN E.at

Run(E) == RunIn(E, Limits)

IdleTick(E) == g.menuState = IDLE /\ Run(E)
AuthTick(E) == g.menuState = AUTH /\ Run(E)
MenuTick(E) == g.menuState = MENU /\ Run(E)
AddUserTick(E) == g.menuState = ADD /\ Run(E)
DeleteUserTick(E) == g.menuState = DELETE /\ Run(E)
SettingsTick(E) == g.menuState = SETTINGS /\ Run(E)

AnyPress == {Released, SelectHeld, UpSelectHeld}

\* The operator goes into the menu and out of it, the link comes and goes.
ToTheMenu ==
  Env((IDLE :> Doing(AnyPress, {}, {}))
      @@ (AUTH :> Doing(AnyPress, {UID1}, {AdminLine}))
      @@ (MENU :> Doing({Released, UpSelectHeld}, {}, {}))
      @@ (SETTINGS :> Doing({}, {}, {})),
      {HIGH}, {LOW, HIGH})

Next ==
  \/ IdleTick(ToTheMenu)
  \/ AuthTick(ToTheMenu)
  \/ MenuTick(ToTheMenu)

Spec == Init /\ [][Next]_vars

(***************************************************************************)
(* The simultaneous long press                                             *)
(***************************************************************************)
BothHeld(o) == o.up = LOW /\ o.select = LOW

ADMIN == <<"a", "d", "m", "i", "n">>

\* C2: the menu modes are entered from Idle or Authenticate only by an
\* auth exchange whose reply carries rslt = admin.
C2_MenuOnlyByAdmin ==
  [][(g.menuState \in {IDLE, AUTH} /\ g'.menuState \in {MENU, ADD, DELETE, SETTINGS})
       => (g.menuState = AUTH /\ StrStr(obs'.replyBytes, RsltIs(ADMIN)))]_vars

\* The operator logs in, leaves the menu by a long press and logs in again;
\* the link stays up.
TwoLogins ==
  Env((IDLE :> Doing({Released, UpSelectHeld}, {}, {}))
      @@ (AUTH :> Doing({Released}, {UID1}, {AdminLine, UserLine, EmptyLine}))
      @@ (MENU :> Doing({Released, SelectHeld}, {}, {})),
      {HIGH}, {LOW})

NextAuth ==
  \/ IdleTick(TwoLogins)
  \/ AuthTick(TwoLogins)
  \/ MenuTick(TwoLogins)

SpecAuth == Init /\ [][NextAuth]_vars

\* C6: the outcome of an exchange is decided from the bytes received after
\* its request only; for the auth exchange: the menu is entered only when
\* those bytes carry rslt = admin.
C6_OutcomeFromOwnReply ==
  [][(g.menuState = AUTH /\ g'.menuState = MENU)
       => StrStr(obs'.replyBytes, RsltIs(ADMIN))]_vars

(***************************************************************************)
(* Add User                                                                *)
(***************************************************************************)
\* The admin goes to Add User, scans a tag, may leave by a long press and
\* come back; the host answers the search or stays silent.
AddingUsers ==
  Env((IDLE :> Doing({Released, UpSelectHeld}, {}, {}))
      @@ (AUTH :> Doing({Released}, {UID1}, {AdminLine}))
      @@ (MENU :> Doing({Released, SelectHeld}, {}, {}))
      @@ (ADD :> Doing({Released, SelectHeld}, {UID1}, {NotFoundLine})),
      {HIGH}, {LOW})

NextAdd ==
  \/ IdleTick(AddingUsers)
  \/ AuthTick(AddingUsers)
  \/ MenuTick(AddingUsers)
  \/ AddUserTick(AddingUsers)

SpecAdd == Init /\ [][NextAdd]_vars

\* C1: when the menu's Select enters a mode, the mode's first run (it is in
\* the same iteration, and nothing before it in that iteration writes the
\* mode's state) starts at sub-state 0 with its id and name buffers empty.
C1_FreshOnEntry ==
  [][(g.menuState = MENU /\ g'.menuState = ADD)
       => /\ add.subState = 0
          /\ add.userId = << >>
          /\ add.userName = << >>]_vars

\* C3: in Add User, the wait for the search reply ends within the deadline
\* and the dwell when the host stays silent and the operator does nothing.
C3_SearchWaitEnds ==
  ~(/\ g.menuState = ADD
    /\ add.subState = 1
    /\ obs.sinceRequest > SERIAL_TIMEOUT + SCAN_DISPLAY_TIME)

(***************************************************************************)
(* Settings: network provisioning                                          *)
(***************************************************************************)
\* The admin goes to the network settings and picks a scanned network; may
\* leave by a long press and come back.
Provisioning ==
  Env((IDLE :> Doing({UpSelectHeld}, {}, {}))
      @@ (AUTH :> Doing({Released}, {UID1}, {AdminLine}))
      @@ (MENU :> Doing({Released, UpHeld, SelectHeld}, {}, {}))
      @@ (SETTINGS :> Doing({Released, UpHeld, SelectHeld}, {}, {NetsLine})),
      {HIGH}, {LOW})

\* The steps of the settings this operator sees: the option list, the scan
\* and the passphrase of a scanned network.
ScanSteps == {0, 30, 31, 32}

NextSettings ==
  \/ IdleTick(Provisioning)
  \/ AuthTick(Provisioning)
  \/ MenuTick(Provisioning)
  \/ SettingsTick(Provisioning) /\ cfg'.subState \in ScanSteps

SpecSettings == Init /\ [][NextSettings]_vars

\* With the link down the hold of Up and Select leads to the network
\* settings; no network is found and the operator enters one by hand, time
\* after time.
ByHand ==
  Env((IDLE :> Doing({Released, UpSelectHeld}, {}, {}))
      @@ (SETTINGS :> Doing({Released, UpHeld, SelectHeld}, {}, {})),
      {HIGH}, {HIGH})

NextManual ==
  \/ IdleTick(ByHand)
  \/ SettingsTick(ByHand)

SpecManual == Init /\ [][NextManual]_vars

\* C8: Settings, left in a passphrase step (the sub-state is as it was
\* left: nothing outside settings() writes it) and entered again from the
\* menu, shows the option list at sub-state 0 and holds no passphrase.
C8_OptionsOnReentry ==
  [][(g.menuState = MENU /\ g'.menuState = SETTINGS /\ cfg.subState \in {32, 35})
       => /\ cfg'.subState = 0
          /\ cfg'.passwordBuff = << >>]_vars

\* C9: when the entry of a network name by hand begins, the widget's start
\* is pending or its buffer is empty, its position 0 and its candidate the
\* first of the alphabet.
C9_FreshWidget ==
  [][(g.menuState = SETTINGS /\ cfg.subState # 34 /\ cfg'.subState = 34)
       => \/ cfg'.ssidInit
          \/ /\ cfg'.manualSSID = << >>
             /\ cfg'.ssidPos = 0
             /\ cfg'.charIndex34 = 0]_vars

(***************************************************************************)
(* The door                                                                *)
(***************************************************************************)
\* Tags are shown to the idle terminal, the host answers the scans, the
\* door is opened and closed at will.
AtTheDoor ==
  Env((IDLE :> Doing({Released}, {UID1}, {InLine, OutLine, FailLine, NotFoundLine})),
      {LOW, HIGH}, {LOW})

NextDoor == IdleTick(AtTheDoor)

SpecDoor == Init /\ [][NextDoor]_vars

\* C4: between iterations the actuator is energized exactly when the
\* forced-unlock flag is set.
C4_ActuatorIffUnlock == (io.accept = HIGH) <=> g.doorForceUnlock

\* The door was unlocked, opened and closed, and the relock is due.
C4_Witness ==
  /\ io.accept = HIGH
  /\ g.doorForceUnlock
  /\ g.doorOpened
  /\ g.doorLockTimer # NoStamp

\* C5: no iteration that reads the door sensor as open de-energizes the
\* actuator.
C5_NoRelockWhileOpen ==
  [][obs'.reed = LOW => ~(io.accept = HIGH /\ io'.accept = LOW)]_vars

(***************************************************************************)
(* The name widget of Add User, driven by a typist                         *)
(***************************************************************************)
\* Longest of the short names typed.
MaxNameLen == 2

\* The characters of the short names: next to the start of the table on
\* either side, and one reached by scrolling across the second '*'.
Keys == {CharAt(1), CharAt(CHAR_TABLE_SIZE - 1), CharAt(CHAR_TABLE_SIZE - 13)}

ShortNames == UNION {[1..n -> Keys] : n \in 0..MaxNameLen}

\* A name that fills the buffer.
FullName == [i \in 1..(MAX_NAME_SIZE - 1) |-> IF i % 2 = 1 THEN CharAt(1) ELSE CharAt(2)]

Targets == ShortNames \union {FullName}

IndexOf(c) == CHOOSE i \in 0..(CHAR_TABLE_SIZE - 1) :
                /\ CharAt(i) = c
                /\ \A j \in 0..(i - 1) : CharAt(j) # c

\* The character the typist is after: the next of the name, then the
\* terminator.
Wanted(o) ==
  IF o.confirmed < Len(o.target) THEN o.target[o.confirmed + 1] ELSE TERMINATOR

\* The typist looks at the candidate shown: releases Select when it is
\* pressed, presses it on the wanted character, else scrolls the shorter way.
TypistPins(m) ==
  LET b == IF m.add.nameInit THEN Released
           ELSE IF m.obs.select = LOW THEN Released
           ELSE IF m.add.currentLetter = Wanted(m.obs) THEN SelectHeld
           ELSE IF 2 * IndexOf(Wanted(m.obs)) <= CHAR_TABLE_SIZE THEN DownHeld
           ELSE UpHeld
  IN Pins(b[1], b[2], b[3], << >>, HIGH, LOW)

NoLimits ==
  [typed |-> MAX_NAME_SIZE, scroll |-> CHAR_TABLE_SIZE, adjust |-> 60,
   buf |-> MAX_GLOBAL_BUFFER_SIZE, seen |-> 2 * MAX_GLOBAL_BUFFER_SIZE]

\* The admin on the way to the name entry.
ToTheName ==
  Env((IDLE :> Doing({UpSelectHeld}, {}, {}))
      @@ (AUTH :> Doing({Released}, {UID1}, {AdminLine}))
      @@ (MENU :> Doing({Released, SelectHeld}, {}, {}))
      @@ (ADD :> Doing({Released}, {UID1}, {NotFoundLine})),
      {HIGH}, {LOW})

TypeTick ==
  /\ g.menuState = ADD
  /\ add.subState = 2
  /\ Tick(TypistPins(Machine), Silence, NoLimits)

InitText ==
  /\ \E t \in Targets : obs = [InitObs EXCEPT !.script = TRUE, !.target = t]
  /\ g = InitG
  /\ auth = InitAuth
  /\ scan = InitScan
  /\ add = InitAdd
  /\ del = InitDel
  /\ cfg = InitCfg
  /\ io = InitIo
  /\ rx = << >>
  /\ gw = InitGw(FALSE)

NextText ==
  \/ IdleTick(ToTheName)
  \/ AuthTick(ToTheName)
  \/ MenuTick(ToTheName)
  \/ add.subState \in {0, 1} /\ AddUserTick(ToTheName)
  \/ TypeTick

SpecText == InitText /\ [][NextText]_vars

\* C10: when the typist has confirmed every character of the name and then
\* the terminator, the widget is complete (the title step is on) and the
\* name buffer holds exactly the name; before that the widget is not
\* complete and the buffer holds the characters confirmed so far.
C10_RoundTrip ==
  (obs.script /\ g.menuState = ADD /\ add.subState \in {2, 3})
    => /\ add.subState = 3 <=> obs.confirmed > Len(obs.target)
       /\ add.userName = Take(obs.target, obs.confirmed)

\* The name that fills the buffer was typed and the widget is complete.
C10_Witness ==
  /\ obs.script
  /\ add.subState = 3
  /\ Len(obs.target) = MAX_NAME_SIZE - 1
  /\ add.userName = obs.target

(***************************************************************************)
(* The codec: a request line is encoded and the decoder is put to it       *)
(***************************************************************************)
Tags ==
  {<<"s", "c", "a", "n">>, <<"a", "u", "t", "h">>,
   <<"s", "e", "a", "r", "c", "h">>, <<"a", "d", "d">>,
   <<"d", "e", "l", "e", "t", "e">>,
   <<"r", "s", "t", "_", "t", "i", "m", "e">>,
   <<"s", "c", "a", "n", "_", "w", "i", "f", "i">>, <<"w", "i", "f", "i">>}

\* A name that fills the name buffer of Add User.
LongName == [i \in 1..(MAX_NAME_SIZE - 1) |-> IF i % 3 = 0 THEN " " ELSE CharAt(i)]

\* The values handed to the encoder: what the terminal can put in a field
\* (tag ids in hex, names over the alphabet of the text entry, titles,
\* times), among them texts that read like keys.  NoText: not supplied.
IdValues == {NoText, UidHex(UID1), <<"t", "m">>}
UnValues == {NoText, <<"i", "d">>, LongName}
UtValues == {NoText, TITLE_ADMIN, <<"u", "n", ":">>}
OptValues == {NoText, <<"o", "p", "t">>}
TmValues == {NoText, <<"0", "8", ":", "1", "5", ":", "0", "0">>, <<"u", "t">>}

FieldKeys == {"id", "un", "ut", "opt", "tm"}

\* The key as the text handed to extractValue.
KeyText(k) ==
  CASE k = "id" -> <<"i", "d">>
    [] k = "un" -> <<"u", "n">>
    [] k = "ut" -> <<"u", "t">>
    [] k = "opt" -> <<"o", "p", "t">>
    [] k = "tm" -> <<"t", "m">>

InitCodec ==
  /\ \E md \in Tags, id \in IdValues, un \in UnValues, ut \in UtValues,
        opt \in OptValues, tm \in TmValues :
       obs = [InitObs EXCEPT !.fields = [md |-> md, id |-> id, un |-> un,
                                         ut |-> ut, opt |-> opt, tm |-> tm]]
  /\ g = InitG
  /\ auth = InitAuth
  /\ scan = InitScan
  /\ add = InitAdd
  /\ del = InitDel
  /\ cfg = InitCfg
  /\ io = InitIo
  /\ rx = << >>
  /\ gw = InitGw(FALSE)

\* sendSerialJson(md, id, un, ut, opt, tm)
CodecSend ==
  /\ io.tx = << >>
  /\ io' = [io EXCEPT !.tx = <<SendSerialJson(obs.fields.md, obs.fields.id,
                                              obs.fields.un, obs.fields.ut,
                                              obs.fields.opt, obs.fields.tm)>>]
  /\ UNCHANGED <<g, auth, scan, add, del, cfg, rx, obs, gw>>

\* extractValue(line, key, g_temp_extract_buffer, MAX_EXTRACT_BUFFER)
CodecExtract ==
  /\ io.tx # << >>
  /\ \E k \in FieldKeys :
       LET r == ExtractValue(io.tx[1], KeyText(k), MAX_EXTRACT_BUFFER)
       IN /\ g' = [g EXCEPT !.g_temp_extract_buffer = IF r.found THEN r.value ELSE @]
          /\ obs' = [obs EXCEPT !.got = [key |-> k, found |-> r.found,
                                         value |-> r.value]]
  /\ UNCHANGED <<auth, scan, add, del, cfg, io, rx, gw>>

NextCodec == CodecSend \/ CodecExtract

SpecCodec == InitCodec /\ [][NextCodec]_vars

\* C11: the decoder put to an encoded request line returns, for the key of
\* each field supplied (given and not empty, which is the encoder's test),
\* exactly the value supplied, and nothing for the key of a field not
\* supplied.  The values are texts the terminal can supply: they hold no
\* double quote and fit the result buffer.
C11_CodecRoundTrip ==
  obs.got.key \in FieldKeys
    => /\ obs.got.found <=> obs.fields[obs.got.key] # NoText
       /\ obs.got.found => obs.got.value = obs.fields[obs.got.key]

\* The decoder returned the time, the last of five supplied fields, and the
\* name before it is the longest the terminal sends.
C11_Witness ==
  /\ obs.got.key = "tm"
  /\ obs.got.found
  /\ obs.got.value = <<"u", "t">>
  /\ obs.fields.un = LongName
  /\ \A k \in FieldKeys : obs.fields[k] # NoText

(***************************************************************************)
(* Contact bounce                                                          *)
(***************************************************************************)
\* Time between the starts of two iterations while a contact bounces: the
\* iterations do no I/O but their own delay and the reads.
FastPeriod == 20

\* The admin on the way to the title step of Add User.
ToTheTitle ==
  Env((IDLE :> Doing({UpSelectHeld}, {}, {}))
      @@ (AUTH :> Doing({Released}, {UID1}, {AdminLine}))
      @@ (MENU :> Doing({Released, SelectHeld}, {}, {}))
      @@ (ADD :> Doing({Released, SelectHeld}, {UID1}, {NotFoundLine})),
      {HIGH}, {LOW})

\* The Up contact bounces: each iteration reads it at either level.
Bounce ==
  \E b \in {Released, UpHeld} :
    TickAt(Pins(b[1], b[2], b[3], << >>, HIGH, LOW), Silence, Limits, FastPeriod)

\* In the main menu, once the post-entry guard is over.
MenuBounce ==
  /\ g.menuState = MENU
  /\ g.menuEntryTime >= POST_ENTRY_DELAY
  /\ Bounce

\* In the title step of Add User.
TitleBounce ==
  /\ g.menuState = ADD
  /\ add.subState = 3
  /\ Bounce

NextBounce ==
  \/ IdleTick(ToTheTitle)
  \/ AuthTick(ToTheTitle)
  \/ MenuTick(ToTheTitle)
  \/ add.subState \in {0, 1, 2} /\ AddUserTick(ToTheTitle)
  \/ MenuBounce
  \/ TitleBounce

SpecBounce == Init /\ [][NextBounce]_vars

\* C12: two iterations that act on the same button (here Up: the selection
\* of the main menu moves, the title of Add User changes) are never closer
\* together than DEBOUNCE_DELAY.
C12_NoChatter ==
  [][UpActed(Machine, [g |-> g', add |-> add'])
       => (obs.upActed = NoStamp \/ obs.upActed >= DEBOUNCE_DELAY)]_vars

(***************************************************************************)
(* Short and long presses of Select                                        *)
(***************************************************************************)
\* The admin logs in and presses Select for any length of time, in
\* Authenticate, in the main menu and in Add User.
Pressing ==
  Env((IDLE :> Doing({UpSelectHeld}, {}, {}))
      @@ (AUTH :> Doing({Released, SelectHeld}, {UID1}, {AdminLine}))
      @@ (MENU :> Doing({Released, SelectHeld}, {}, {}))
      @@ (ADD :> Doing({Released, SelectHeld}, {}, {})),
      {HIGH}, {LOW})

InitPress ==
  /\ obs = [InitObs EXCEPT !.probe = "select"]
  /\ g = InitG
  /\ auth = InitAuth
  /\ scan = InitScan
  /\ add = InitAdd
  /\ del = InitDel
  /\ cfg = InitCfg
  /\ io = InitIo
  /\ rx = << >>
  /\ gw = InitGw(FALSE)

NextPress ==
  \/ IdleTick(Pressing)
  \/ AuthTick(Pressing)
  \/ MenuTick(Pressing)
  \/ AddUserTick(Pressing)

SpecPress == InitPress /\ [][NextPress]_vars

\* handleInput reports a long press in this step.
LongFires == LongReported(Machine, [g |-> g'])

\* handleInput takes the short-press action in this step.
ShortActs == g.menuState = MENU /\ g'.menuState \in {ADD, DELETE, SETTINGS}

\* handleInput deals with the release of Select in this step: it runs (a
\* menu mode, the post-entry guard over) and reads Select as HIGH after LOW.
ReleaseHandled ==
  /\ g.menuState > 0 - 1
  /\ ~(g.menuState = MENU /\ g.menuEntryTime < POST_ENTRY_DELAY)
  /\ obs.select = LOW
  /\ obs'.select = HIGH

Requesting ==
  Env((IDLE :> Doing({Released, UpSelectHeld}, {UID1}, {InLine, NotFoundLine}))
      @@ (SETTINGS :> Doing({Released}, {}, {NetsLine, NoNetsLine})),
      {HIGH}, {HIGH})

InitRetry ==
  /\ obs = [InitObs EXCEPT !.probe = "retry"]
  /\ g = InitG
  /\ auth = InitAuth
  /\ scan = InitScan
  /\ add = InitAdd
  /\ del = InitDel
  /\ cfg = InitCfg
  /\ io = InitIo
  /\ rx = << >>
  /\ gw = InitGw(FALSE)

NextRetry ==
  \/ IdleTick(Requesting)
  \/ SettingsTick(Requesting)

SpecRetry == InitRetry /\ [][NextRetry]_vars

\* C14: no request repeats the kind of the request before it unless the
\* operator has acted in between (shown a tag, pressed or released a
\* button), whatever the host answered.
C14_NoRetry == ~obs.repeat

(***************************************************************************)
(* One exchange at a time                                                  *)
(***************************************************************************)
\* The mode in control has sent a request and waits for its reply.
Pending(m) ==
  \/ m.g.menuState = AUTH /\ m.auth.authSubState = 1
  \/ m.g.menuState = IDLE /\ m.scan.subState = 1
  \/ m.g.menuState = ADD /\ m.add.subState \in {1, 4}
  \/ m.g.menuState = DELETE /\ m.del.subState \in {1, 3}
  \/ m.g.menuState = SETTINGS /\ m.cfg.subState \in {13, 33}
       /\ ~m.cfg.displayUpdateNeeded
  \/ m.g.menuState = SETTINGS /\ m.cfg.subState = 31
       /\ ~m.cfg.displayUpdateNeeded /\ m.cfg.netsCount = 0

\* Tags are scanned at the idle terminal; the admin deletes users and sets
\* the reset time, and leaves no mode by a long press of Select; the host
\* answers or stays silent.
Exchanging ==
  Env((IDLE :> Doing({Released, UpSelectHeld}, {UID1}, {InLine}))
      @@ (AUTH :> Doing({Released}, {UID1}, {AdminLine}))
      @@ (MENU :> Doing({Released, DownHeld, SelectHeld}, {}, {}))
      @@ (DELETE :> Doing({Released, SelectHeld}, {UID1}, {FoundLine, DeletedLine}))
      @@ (SETTINGS :> Doing({Released, SelectHeld}, {}, {DoneLine})),
      {HIGH}, {LOW})

\* The steps of the settings this admin sees: the option list and the
\* reset time.
TimeSteps == {0, 11, 12, 13, 14}

NextExchange ==
  \/ IdleTick(Exchanging)
  \/ AuthTick(Exchanging)
  \/ MenuTick(Exchanging) /\ ~g'.isLongPressReturnActive
  \/ DeleteUserTick(Exchanging) /\ ~g'.isLongPressReturnActive
  \/ SettingsTick(Exchanging) /\ ~g'.isLongPressReturnActive
       /\ cfg'.subState \in TimeSteps

SpecExchange == Init /\ [][NextExchange]_vars

\* C15: an iteration that begins with the mode in control waiting for the
\* reply to its request writes no request.
C15_OneOutstanding == [][Pending(Machine) => io'.tx = << >>]_vars

\* Delete User waits for the reply to its delete request, with bytes of it
\* in the buffer.
C15_Witness ==
  /\ g.menuState = DELETE
  /\ del.subState = 3
  /\ g.g_serial_index > 0

(***************************************************************************)
(* The screens of Idle and Authenticate and how long they stay             *)
(***************************************************************************)
TimeoutScreen == Msg("Timeout!", "Try again.")
AuthTimeoutScreen == Msg("Auth Timeout!", "Try again.")
PromptScreen == Msg("Scan your card", "")
AuthPromptScreen == Msg("Auth. scan card", "waiting....")

InitScreen ==
  /\ obs = [InitObs EXCEPT !.probe = "screen"]
  /\ g = InitG
  /\ auth = InitAuth
  /\ scan = InitScan
  /\ add = InitAdd
  /\ del = InitDel
  /\ cfg = InitCfg
  /\ io = InitIo
  /\ rx = << >>
  /\ gw = InitGw(FALSE)

\* Tags are shown to the terminal in Idle and in Authenticate; the host
\* stays silent or sends the beginning of a reply and no more.
HostDown ==
  Env((IDLE :> Doing({Released, UpSelectHeld}, {UID1}, {PartLine}))
      @@ (AUTH :> Doing({Released}, {UID1}, {PartLine})),
      {HIGH}, {LOW})

NextTimeout ==
  \/ IdleTick(HostDown)
  \/ AuthTick(HostDown)

SpecTimeout == InitScreen /\ [][NextTimeout]_vars

\* The iteration runs the sub-state of the mode: the hold of Up and Select
\* is not on, and in Authenticate Select is not pressed.
RunsSubState ==
  /\ g.entryPressStart = NoStamp
  /\ g.menuState = AUTH => obs'.select = HIGH

\* C16: an iteration that finds the scan reply (in Idle) or the auth reply
\* (in Authenticate) awaited for more than SERIAL_TIMEOUT since the request
\* shows the timeout message and puts the mode at its prompt sub-state; the
\* message stays for SCAN_DISPLAY_TIME at least, and the next iteration of
\* the mode shows the prompt.
C16_TimeoutRecovers ==
  [][/\ (g.menuState = IDLE /\ scan.subState = 1 /\ RunsSubState
         /\ scan.transactionStartTime > SERIAL_TIMEOUT)
          => (g'.menuState = IDLE /\ scan'.subState = 0 /\ io'.lcd = TimeoutScreen)
     /\ (g.menuState = AUTH /\ auth.authSubState = 1 /\ RunsSubState
         /\ auth.authStartTime > SERIAL_TIMEOUT)
          => (g'.menuState = AUTH /\ auth'.authSubState = 0
              /\ io'.lcd = AuthTimeoutScreen)
     /\ (io.lcd \in {TimeoutScreen, AuthTimeoutScreen} /\ io'.lcd # io.lcd)
          => obs.shown >= SCAN_DISPLAY_TIME
     /\ (io.lcd = TimeoutScreen /\ g.menuState = IDLE /\ RunsSubState)
          => (io'.lcd = PromptScreen /\ scan'.subState \in {0, 1})
     /\ (io.lcd = AuthTimeoutScreen /\ g.menuState = AUTH /\ RunsSubState)
          => (io'.lcd = AuthPromptScreen /\ auth'.authSubState \in {0, 1})]_vars

\* The auth reply was begun and never completed: Authenticate is back at
\* its prompt sub-state and shows the timeout message.
C16_Witness ==
  /\ g.menuState = AUTH
  /\ auth.authSubState = 0
  /\ io.lcd = AuthTimeoutScreen
  /\ g.g_serial_index > 0

(***************************************************************************)
(* The replies to a scan and their screens                                 *)
(***************************************************************************)
HostErrorScreen == Msg("JSON Error!", "Reset host system.")

\* Tags are shown in Idle and the host answers, at any time within the
\* wait, with an entry, an exit or a reply without nm and act.
HostReplies ==
  Env(IDLE :> Doing({Released}, {UID1}, {InLine, OutLine, OtherLine}),
      {HIGH}, {LOW})

\* The replies are stored whole.
NextScan == g.menuState = IDLE /\ RunIn(HostReplies, NoLimits)

SpecScan == InitScreen /\ [][NextScan]_vars

\* C17: the host-error screen that follows a complete reply without nm or
\* without act is replaced only when SCAN_DISPLAY_TIME has passed since the
\* reply was parsed.
C17_ErrorScreenDwell ==
  [][(io.lcd = HostErrorScreen /\ io'.lcd # io.lcd)
       => obs.sinceReply >= SCAN_DISPLAY_TIME]_vars

(***************************************************************************)
(* Replies larger than the reply buffer                                    *)
(***************************************************************************)
\* The admin looks a tag up in Add User and in Delete User; the host
\* answers with more characters than the buffer holds.
HostFloods ==
  Env((IDLE :> Doing({UpSelectHeld}, {}, {}))
      @@ (AUTH :> Doing({Released}, {UID1}, {AdminLine}))
      @@ (MENU :> Doing({Released, DownHeld, SelectHeld}, {}, {}))
      @@ (ADD :> Doing({Released}, {UID1}, {JunkLine}))
      @@ (DELETE :> Doing({Released, SelectHeld}, {UID1}, {FoundLine, JunkLine})),
      {HIGH}, {LOW})

NextFlood ==
  \/ IdleTick(HostFloods)
  \/ AuthTick(HostFloods)
  \/ MenuTick(HostFloods) /\ ~g'.isLongPressReturnActive
  \/ g.menuState = ADD /\ RunIn(HostFloods, NoLimits)
  \/ g.menuState = DELETE /\ RunIn(HostFloods, NoLimits) /\ ~g'.isLongPressReturnActive

SpecFlood == Init /\ [][NextFlood]_vars

\* C18: an iteration that reads a byte of the reply while the buffer is
\* full leaves the await sub-state.
C18_FullBufferLeaves ==
  [][(Awaiting(Machine) /\ ~BufferHasRoom(Machine)
      /\ obs'.replyBytes # obs.replyBytes)
       => ~Awaiting([g |-> g', auth |-> auth', scan |-> scan', add |-> add',
                     del |-> del', cfg |-> cfg'])]_vars

\* {"md":"scan", "id":"04A1B2C3"} and the end of the line.
ScanRequest ==
  <<"{", Q, "m", "d", Q, ":", Q, "s", "c", "a", "n", Q, ",", " ",
    Q, "i", "d", Q, ":", Q, "0", "4", "A", "1", "B", "2", "C", "3", Q, "}",
    "\r", "\n">>

\* A literal text of the program is one element of a line.
InScreen == Screen(<<"A", "l">>, <<"IN ", "0", "8", ":", "1", "5">>)

\* The iteration reads the whole reply r, and nothing before it.
Reads(r) ==
  /\ scan.subState = 1
  /\ scan.transactionStartTime <= SERIAL_TIMEOUT
  /\ obs.replyBytes = << >>
  /\ obs'.replyBytes \o <<"\n">> = r

\* C19: a tag shown at the prompt makes the terminal send the scan request
\* with the tag id and nothing else; the reply with nm, act IN and tm leads
\* to the screen with the name and IN and the time, which is replaced only
\* when SCAN_DISPLAY_TIME has passed since the reply, and by the prompt.
C19_Entry ==
  [][/\ (scan.subState = 0 /\ scan'.subState = 1) => io'.tx = <<ScanRequest>>
     /\ Reads(InLine) => scan'.subState = 2
     /\ scan.subState = 2 => io'.lcd = InScreen
     /\ (io.lcd = InScreen /\ io'.lcd # io.lcd)
          => (obs.sinceReply >= SCAN_DISPLAY_TIME /\ io'.lcd = PromptScreen)]_vars

\* The entry screen has been on for the dwell time and the machine is
\* back at the prompt sub-state.
C19_Witness ==
  /\ io.lcd = InScreen
  /\ scan.subState = 0
  /\ obs.sinceReply >= SCAN_DISPLAY_TIME
  /\ obs.shown >= SCAN_DISPLAY_TIME

OutScreen == Screen(<<"A", "l">>, <<"OUT ", "1", "7", ":", "0", "0">>)
DurationScreen == Screen(<<"Duration">>, <<"0", "8", ":", "4", "5">>)

\* C20: the reply with act OUT, tm and dur leads to the screen with the
\* name and OUT and the time; it is replaced only when SCAN_DISPLAY_TIME has
\* passed since the reply, and by the screen with Duration and the dur
\* value; that one is replaced only when it has been on for
\* SCAN_DISPLAY_TIME, and by the prompt.
C20_ExitThenDuration ==
  [][/\ Reads(OutLine) => scan'.subState = 3
     /\ (scan.subState = 3 /\ scan.actionType = ACT_OUT) => io'.lcd = OutScreen
     /\ (io.lcd = OutScreen /\ io'.lcd # io.lcd)
          => (obs.sinceReply >= SCAN_DISPLAY_TIME /\ io'.lcd = DurationScreen)
     /\ (io.lcd = DurationScreen /\ io'.lcd # io.lcd)
          => (obs.shown >= SCAN_DISPLAY_TIME /\ io'.lcd = PromptScreen)
     /\ (io.lcd # DurationScreen /\ io'.lcd = DurationScreen)
          => io.lcd = OutScreen]_vars

\* The second screen of an exit has been on for the dwell time and the
\* machine is back at the prompt sub-state.
C20_Witness ==
  /\ io.lcd = DurationScreen
  /\ scan.subState = 0
  /\ obs.shown >= SCAN_DISPLAY_TIME

(***************************************************************************)
(* The loop goes on and the operator can always go back to the prompt      *)
(***************************************************************************)
\* The operator and the host do what they like in every mode; the host
\* answers rightly, wrongly, with nothing but a newline, with the beginning
\* of a reply or with more than the buffer holds.
Anything ==
  Env((IDLE :> Doing({Released, UpSelectHeld}, {UID1}, {OtherLine, PartLine}))
      @@ (AUTH :> Doing({Released}, {UID1}, {AdminLine, EmptyLine, PartLine}))
      @@ (MENU :> Doing({Released, DownHeld, SelectHeld}, {}, {}))
      @@ (ADD :> Doing({Released}, {UID1}, {NotFoundLine, JunkLine}))
      @@ (DELETE :> Doing({Released, SelectHeld}, {UID1}, {FoundLine, JunkLine}))
      @@ (SETTINGS :> Doing({Released, SelectHeld}, {}, {NoNetsLine})),
      {HIGH}, {LOW})

\* The operator within the limits, the replies stored whole.
Whole ==
  [Limits EXCEPT !.buf = MAX_GLOBAL_BUFFER_SIZE, !.seen = 2 * MAX_GLOBAL_BUFFER_SIZE]

NextLoop ==
  \/ IdleTick(Anything)
  \/ AuthTick(Anything)
  \/ MenuTick(Anything) /\ ~g'.isLongPressReturnActive
  \/ g.menuState = ADD /\ RunIn(Anything, Whole) /\ add'.subState \in {0, 1, 2}
  \/ g.menuState = DELETE /\ RunIn(Anything, Whole) /\ ~g'.isLongPressReturnActive
  \/ SettingsTick(Anything) /\ ~g'.isLongPressReturnActive

SpecLoop == Init /\ [][NextLoop]_vars

Hands(b) == Pins(b[1], b[2], b[3], << >>, HIGH, LOW)

\* The way back: hands off, a long press of Select, hands off, a second
\* long press, and hands off until the waits and the screens are over.
WayBack ==
  <<Released, SelectHeld, SelectHeld, SelectHeld, SelectHeld,
    Released, SelectHeld, SelectHeld, SelectHeld, SelectHeld,
    Released, Released, Released, Released, Released, Released,
    Released, Released, Released, Released, Released, Released>>

AtPrompt(m) ==
  /\ m.g.menuState = IDLE
  /\ m.scan.subState = 0
  /\ m.io.lcd = PromptScreen

\* The operator does what the script says from its i-th entry on and the
\* host is silent: the machine ends at the prompt.
RECURSIVE Leads(_, _)
Leads(m, i) ==
  IF i > Len(WayBack) THEN AtPrompt(m)
  ELSE \E n \in {Step(m, Hands(WayBack[i]), Silence)} : Leads(n, i + 1)

\* ENABLED Tick(in, Silence, NoLimits), spelled out: the iteration with
\* the levels in has an outcome.
CanTick(in) == Bounded(Step(Machine, in, Silence), NoLimits)

\* C21: in every reachable state an iteration can follow whatever the
\* buttons and the reader deliver, and the operator has a way back to the
\* scan prompt of Idle.
C21_LoopGoesOn ==
  /\ \A b \in {Released, UpHeld, DownHeld, SelectHeld, UpSelectHeld},
        c \in {<< >>, UID1} :
       CanTick(Pins(b[1], b[2], b[3], c, HIGH, LOW))
  /\ Leads(Machine, 1)

\* The add-user search got more than the buffer holds.
C21_Witness ==
  /\ g.menuState = ADD
  /\ add.subState = 1
  /\ ~BufferHasRoom(Machine)

(***************************************************************************)
(* What energizes the door actuator                                        *)
(***************************************************************************)
\* Tags are scanned in Idle and the host decides, refuses, does not know
\* the tag or answers wrongly; the admin looks tags up, and the host
\* answers an admin request with an entry decision as well.
Deciding ==
  Env((IDLE :> Doing({Released, UpSelectHeld}, {UID1},
                     {InLine, OutLine, FailLine, NotFoundLine, OtherLine,
                      UnknownLine}))
      @@ (AUTH :> Doing({Released}, {UID1}, {AdminLine, InLine}))
      @@ (MENU :> Doing({Released, DownHeld, SelectHeld}, {}, {}))
      @@ (ADD :> Doing({Released}, {UID1}, {InLine}))
      @@ (DELETE :> Doing({Released}, {UID1}, {InLine})),
      {HIGH}, {LOW})

\* The admin starts the hold of Up and Select at the prompt, before any
\* tag was scanned.
NextUnlock ==
  \/ /\ g.menuState = IDLE
     /\ RunIn(Deciding, Whole)
     /\ obs'.up = LOW => (scan.subState = 0 /\ scan.userName = NoText)
  \/ g.menuState = AUTH /\ RunIn(Deciding, Whole)
  \/ MenuTick(Deciding) /\ ~g'.isLongPressReturnActive
  \/ g.menuState = ADD /\ RunIn(Deciding, Whole)
  \/ g.menuState = DELETE /\ RunIn(Deciding, Whole)

SpecUnlock == Init /\ [][NextUnlock]_vars

KeyAct == <<"a", "c", "t">>

\* What the host sent since the request has the decision d in act.
Decided(d) == StrStr(obs'.replyBytes, Pair(KeyAct, d))

\* C22: the actuator becomes energized, and the forced-unlock flag set,
\* only in an iteration of Idle that reads to its end a reply to the scan
\* request with IN or OUT in act.
C22_UnlockOnlyByDecision ==
  [][((io.accept = LOW /\ io'.accept = HIGH)
      \/ (~g.doorForceUnlock /\ g'.doorForceUnlock))
       => /\ g.menuState = IDLE
          /\ scan.subState = 1
          /\ scan.transactionStartTime <= SERIAL_TIMEOUT
          /\ Decided(ACT_IN) \/ Decided(ACT_OUT)
          /\ ~StrStr(obs'.replyBytes, RsltIs(<<"N", "F">>))
          /\ obs'.replyBytes[Len(obs'.replyBytes)] = "}"]_vars

\* The admin is in Delete User, the host answered the search with an entry
\* decision, and the door is locked.
C22_Witness ==
  /\ g.menuState = DELETE
  /\ del.subState = 1
  /\ StrStr(g.g_serial_buffer, Pair(KeyAct, ACT_IN))
  /\ io.accept = LOW

(***************************************************************************)
(* The door after an unlock                                                *)
(***************************************************************************)
InitDoor ==
  /\ obs = [InitObs EXCEPT !.probe = "door"]
  /\ g = InitG
  /\ auth = InitAuth
  /\ scan = InitScan
  /\ add = InitAdd
  /\ del = InitDel
  /\ cfg = InitCfg
  /\ io = InitIo
  /\ rx = << >>
  /\ gw = InitGw(FALSE)

SpecRelock == InitDoor /\ [][NextDoor]_vars

\* The iteration unlocks the door.
Unlocks == UnlockedIn(Machine, [scan |-> scan'])

\* doorUpdate of this iteration runs DOOR_RELOCK_DELAY or more after the
\* deadline was armed.
RelockDue == obs'.sinceArmed >= DOOR_RELOCK_DELAY + LoopPeriod

\* C23: the opened flag is set only by a reading of open while unlocked;
\* the relock deadline is armed by the first reading of closed that finds
\* the opened flag set, and by nothing else; with the deadline armed and no
\* new unlock, the first iteration whose doorUpdate runs at or after the
\* deadline de-energizes the actuator and clears the forced-unlock flag,
\* the opened flag and the deadline, and no other iteration de-energizes
\* the actuator.
C23_RelockSequence ==
  [][/\ (~g.doorOpened /\ g'.doorOpened) => (obs'.reed = LOW /\ g'.doorForceUnlock)
     /\ (g.doorLockTimer = NoStamp /\ g'.doorLockTimer # NoStamp)
          => (g.doorForceUnlock /\ g.doorOpened /\ obs'.reed = HIGH)
     /\ (g.doorForceUnlock /\ g.doorOpened /\ g.doorLockTimer = NoStamp
         /\ obs'.reed = HIGH /\ ~Unlocks)
          => g'.doorLockTimer # NoStamp
     /\ (g.doorLockTimer # NoStamp /\ ~Unlocks)
          => (RelockDue <=> (io.accept = HIGH /\ io'.accept = LOW))
     /\ (io.accept = HIGH /\ io'.accept = LOW)
          => (/\ g.doorLockTimer # NoStamp
              /\ ~g'.doorForceUnlock
              /\ ~g'.doorOpened
              /\ g'.doorLockTimer = NoStamp)]_vars

\* The door was unlocked, opened and closed, and is locked again.
C23_Witness ==
  /\ io.accept = LOW
  /\ ~g.doorForceUnlock
  /\ obs.sinceArmed >= DOOR_RELOCK_DELAY


\* C24: while the sensor has not read open since the unlock, the door is
\* unlocked, the actuator is energized and no relock deadline is armed,
\* whatever the time that has passed.
C24_StaysUnlocked ==
  obs.door = "shut"
    => (g.doorForceUnlock /\ io.accept = HIGH /\ g.doorLockTimer = NoStamp)

\* The door was unlocked and never opened; the entry screen is long over
\* and a later scan has timed out.
C24_Witness ==
  /\ obs.door = "shut"
  /\ io.accept = HIGH
  /\ io.lcd = TimeoutScreen

(***************************************************************************)
(* Delete User sessions                                                    *)
(***************************************************************************)
\* The admin goes to Delete User, looks a tag up, leaves and comes back.
Deleting ==
  Env((IDLE :> Doing({UpSelectHeld}, {}, {}))
      @@ (AUTH :> Doing({Released}, {UID1}, {AdminLine}))
      @@ (MENU :> Doing({Released, DownHeld, SelectHeld}, {}, {}))
      @@ (DELETE :> Doing({Released, SelectHeld}, {UID1}, {FoundLine})),
      {HIGH}, {LOW})

NextDelete ==
  \/ IdleTick(Deleting)
  \/ AuthTick(Deleting)
  \/ MenuTick(Deleting)
  \/ DeleteUserTick(Deleting)

SpecDelete == Init /\ [][NextDelete]_vars

\* The iteration sent a delete request.
DeleteSent == \E i \in 1..Len(io'.tx) : KindOf(io'.tx[i]) = <<"d", "e", "l", "e", "t", "e">>

\* C25: a delete request is sent only by an iteration that finds the
\* terminal in Delete User at the confirmation screen and sees Select
\* released after it was pressed there; the iteration that enters Delete
\* User from the menu sends none.
C25_DeleteOnlyConfirmed ==
  [][DeleteSent
       => (/\ g.menuState = DELETE
           /\ del.subState = 2
           /\ obs.select = LOW
           /\ obs'.select = HIGH)]_vars

(***************************************************************************)
(* Long presses of Select in every mode                                    *)
(***************************************************************************)
\* The admin presses Select, short and long, in Authenticate, in the menu
\* and in the three modes behind it, at any sub-state he gets to.
Holding ==
  Env((IDLE :> Doing({UpSelectHeld}, {}, {}))
      @@ (AUTH :> Doing({Released, SelectHeld}, {UID1}, {AdminLine}))
      @@ (MENU :> Doing({Released, DownHeld, SelectHeld}, {}, {}))
      @@ (ADD :> Doing({Released, SelectHeld}, {UID1}, {}))
      @@ (DELETE :> Doing({Released, SelectHeld}, {UID1}, {FoundLine}))
      @@ (SETTINGS :> Doing({Released, SelectHeld}, {}, {})),
      {HIGH}, {LOW})

NextHold ==
  \/ IdleTick(Holding)
  \/ AuthTick(Holding)
  \/ MenuTick(Holding)
  \/ AddUserTick(Holding) /\ add'.subState \in {0, 1}
  \/ DeleteUserTick(Holding) /\ del'.subState \in {0, 1, 2}
  \/ SettingsTick(Holding) /\ cfg'.subState \in {0, 31}

SpecHold == InitPress /\ [][NextHold]_vars

\* This iteration is the first to read Select as held for
\* LONG_PRESS_DURATION.
Crossing ==
  /\ obs'.select = LOW
  /\ obs'.selSeen >= LONG_PRESS_DURATION
  /\ obs.selSeen < LONG_PRESS_DURATION

\* The switch of a long press.
Switches ==
  /\ g.menuState \in {ADD, DELETE, SETTINGS} => g'.menuState = MENU
  /\ g.menuState \in {MENU, AUTH} => g'.menuState = IDLE

Timed ==
  IF g.menuState = AUTH
  THEN /\ auth.authSelectPressStart # NoStamp
       /\ auth.authSelectPressStart >= obs.selHeld
       /\ g.lastSelectState = LOW
  ELSE obs.latched

Choosing ==
  Env((IDLE :> Doing({UpSelectHeld}, {}, {}))
      @@ (AUTH :> Doing({Released}, {UID1}, {AdminLine}))
      @@ (MENU :> Doing({Released, UpHeld, DownHeld, SelectHeld}, {}, {}))
      @@ (ADD :> Doing({Released, SelectHeld}, {}, {}))
      @@ (DELETE :> Doing({Released, SelectHeld}, {}, {}))
      @@ (SETTINGS :> Doing({Released, SelectHeld}, {}, {})),
      {HIGH}, {LOW})

\* While Select is held in the menu, the post-entry guard over, the
\* iterations follow one another at their own delay.
MenuQuick ==
  /\ g.menuState = MENU
  /\ g.menuEntryTime >= POST_ENTRY_DELAY
  /\ obs.select = LOW
  /\ \E b \in {Released, SelectHeld} :
       TickAt(Hands(b), Silence, Limits, FastPeriod)

NextChoose ==
  \/ IdleTick(Choosing)
  \/ MenuQuick
  \/ AuthTick(Choosing)
  \/ MenuTick(Choosing)
  \/ AddUserTick(Choosing) /\ add'.subState = 0
  \/ DeleteUserTick(Choosing) /\ del'.subState = 0
  \/ SettingsTick(Choosing) /\ cfg'.subState = 0

SpecChoose == InitPress /\ [][NextChoose]_vars

Modes == {IDLE, AUTH, MENU, ADD, DELETE, SETTINGS}

\* handleInput deals with the release of a press of Select that lasted more
\* than DEBOUNCE_DELAY and less than LONG_PRESS_DURATION, in the main menu.
ShortPress ==
  /\ g.menuState = MENU
  /\ ReleaseHandled
  /\ obs.selSeen > DEBOUNCE_DELAY
  /\ obs.selSeen < LONG_PRESS_DURATION

\* handleInput reads a press of Up, or of Down, that begins, in the main
\* menu and out of the lock-out that follows an accepted edge.
MoveRead(was, is, other) ==
  /\ g.menuState = MENU
  /\ g.menuEntryTime >= POST_ENTRY_DELAY
  /\ g.lastDebounceTime > DEBOUNCE_DELAY
  /\ was = HIGH /\ is = LOW /\ other = HIGH

\* The selection moves by one, round the ends, and only in the main menu.
Moves ==
  /\ g'.currentSelection \in 0..(MENU_SIZE - 1)
  /\ g'.currentSelection # g.currentSelection
       => /\ g.menuState = MENU
          /\ \/ g'.currentSelection = (g.currentSelection + 1) % MENU_SIZE
             \/ g.currentSelection = (g'.currentSelection + 1) % MENU_SIZE
  /\ MoveRead(obs.up, obs'.up, obs'.down)
       => g.currentSelection = (g'.currentSelection + 1) % MENU_SIZE
  /\ MoveRead(obs.down, obs'.down, obs'.up)
       => g'.currentSelection = (g.currentSelection + 1) % MENU_SIZE

GivenUp ==
  /\ BothHeld(obs)
  /\ ~BothHeld(obs')
  /\ obs.hold < MENU_ENTRY_DURATION

\* The terminal is idle and no hold is being timed.
Aborted == g'.menuState = IDLE /\ g'.entryPressStart = NoStamp

InitGuard ==
  /\ obs = [InitObs EXCEPT !.probe = "guard"]
  /\ g = InitG
  /\ auth = InitAuth
  /\ scan = InitScan
  /\ add = InitAdd
  /\ del = InitDel
  /\ cfg = InitCfg
  /\ io = InitIo
  /\ rx = << >>
  /\ gw = InitGw(FALSE)

Entering ==
  Env((IDLE :> Doing({UpSelectHeld}, {}, {}))
      @@ (AUTH :> Doing({Released}, {UID1}, {AdminLine}))
      @@ (MENU :> Doing({Released, DownHeld, SelectHeld}, {}, {}))
      @@ (ADD :> Doing({Released, SelectHeld}, {}, {})),
      {HIGH}, {LOW})

NextGuard ==
  \/ IdleTick(Entering)
  \/ AuthTick(Entering)
  \/ MenuTick(Entering)
  \/ AddUserTick(Entering)

SpecGuard == InitGuard /\ [][NextGuard]_vars

\* The mode was entered less than POST_ENTRY_DELAY ago.
JustEntered == obs.sinceSwitch # NoStamp /\ obs.sinceSwitch < POST_ENTRY_DELAY

\* The iteration reads a button at another level than the one before.
Edge == obs'.up # obs.up \/ obs'.down # obs.down \/ obs'.select # obs.select

\* C29: for POST_ENTRY_DELAY after a switch into the main menu or Add User
\* no button edge moves the selection or changes the mode.
C29_GuardAfterEverySwitch ==
  [][(g.menuState \in {MENU, ADD} /\ JustEntered /\ Edge)
       => (g'.currentSelection = g.currentSelection
           /\ g'.menuState = g.menuState)]_vars

(***************************************************************************)
(* A reply that comes late                                                 *)
(***************************************************************************)
\* A tag is scanned at the idle terminal and the host is slow; the operator
\* makes the gesture while the scan request is pending, and an admin tag is
\* shown in Authenticate.  The host answers the auth request with the admin
\* line.
Switching ==
  Env((IDLE :> Doing({Released, UpSelectHeld}, {UID1}, {}))
      @@ (AUTH :> Doing({Released}, {UID1}, {AdminLine}))
      @@ (MENU :> Doing({Released, SelectHeld}, {}, {})),
      {HIGH}, {LOW})

\* The host's answer to the scan request arrives, once, while the terminal
\* is in Authenticate and mainCardScan is still at its await step.
LateReply ==
  /\ g.menuState = AUTH
  /\ scan.subState = 1
  /\ ~obs.late
  /\ Becomes([Step(Machine, Hands(Released), InLine) EXCEPT !.obs.late = TRUE],
             Whole)

NextLate ==
  \/ IdleTick(Switching)
  \/ AuthTick(Switching)
  \/ MenuTick(Switching)
  \/ LateReply

SpecLate == Init /\ [][NextLate]_vars

\* C30: the bytes that handleAuthentication takes for the reply to its auth
\* request are not the host's answer to the scan request of Idle.
C30_ReplyToOwnRequest ==
  [][(g.menuState = AUTH /\ obs'.replyBytes # obs.replyBytes)
       => ~StrStr(obs'.replyBytes, KeyAct)]_vars

(***************************************************************************)
(* The values on the result screens                                        *)
(***************************************************************************)
\* Tags are scanned one after the other; the host reports the entries, with
\* the time or without it.
HostOmits ==
  Env(IDLE :> Doing({Released}, {UID1}, {InLine, BareInLine}),
      {HIGH}, {LOW})

NextStale == g.menuState = IDLE /\ RunIn(HostOmits, NoLimits)

SpecStale == InitScreen /\ [][NextStale]_vars

\* The value of the field k in what the host sent since the request; no
\* text when the reply has no such field.
Sent(k, size) == ExtractValue(obs.replyBytes, k, size).value

\* C31: the screen of an entry shows the name and the time of the reply of
\* the current exchange; when the reply has no time, none is shown.
C31_ValuesOfCurrentReply ==
  [][(scan.subState = 2 /\ ~g.mainScanDisplayDrawn)
       => io'.lcd = Screen(Sent(<<"n", "m">>, USERNAME_SIZE),
                           <<"IN ">> \o Sent(<<"t", "m">>, TIME_SIZE))]_vars

(***************************************************************************)
(* The four text widgets, with any presses                                 *)
(***************************************************************************)
InitWidget ==
  /\ obs = [InitObs EXCEPT !.probe = "widget"]
  /\ g = InitG
  /\ auth = InitAuth
  /\ scan = InitScan
  /\ add = InitAdd
  /\ del = InitDel
  /\ cfg = InitCfg
  /\ io = InitIo
  /\ rx = << >>
  /\ gw = InitGw(FALSE)

\* The admin goes to the name of Add User, or to the networks and the
\* passphrase of a scanned one; the operator without a link enters a network
\* by hand.  In the widgets the operator presses what he likes.
AnyKey == {Released, UpHeld, DownHeld, SelectHeld}

Typing ==
  Env((IDLE :> Doing({UpSelectHeld}, {}, {}))
      @@ (AUTH :> Doing({Released}, {UID1}, {AdminLine}))
      @@ (MENU :> Doing({Released, UpHeld, SelectHeld}, {}, {}))
      @@ (ADD :> Doing(AnyKey, {UID1}, {NotFoundLine}))
      @@ (SETTINGS :> Doing(AnyKey, {}, {NetsLine})),
      {HIGH}, {LOW, HIGH})

\* Names and passphrases of up to MaxNameLen characters.

\* The link is as it was when the operator began.
HandsOff == obs'.up = HIGH /\ obs'.down = HIGH /\ obs'.select = HIGH

NextWidget ==
  \/ IdleTick(Typing)
  \/ AuthTick(Typing)
  \/ MenuTick(Typing) /\ ~g'.isLongPressReturnActive
  \/ /\ g.menuState = ADD
     /\ Run(Typing)
     /\ ~g'.isLongPressReturnActive
     /\ add'.subState \in {0, 1, 2, 3}
     /\ IF add.subState = 2 THEN obs'.up = HIGH ELSE HandsOff
  \/ /\ g.menuState = SETTINGS
     /\ Run(Typing)
     /\ ~g'.isLongPressReturnActive
     /\ cfg'.subState \in {0, 30, 31, 32, 33, 34, 35}
     /\ IF cfg.subState \in {32, 34, 35} THEN obs'.up = HIGH
        ELSE IF cfg.subState = 33 THEN HandsOff
        ELSE IF cfg.subState = 31 THEN obs'.up = HIGH /\ obs'.down = HIGH
        ELSE obs'.down = HIGH

SpecWidget == InitWidget /\ [][NextWidget]_vars


\* Select is released in the widget w with Up and Down left alone: a
\* confirming press.
Press(w) ==
  /\ At(Machine) = w
  /\ Confirming(Machine, obs'.select)
  /\ obs'.up = HIGH
  /\ obs'.down = HIGH

Room(m) ==
  /\ At(m) # ""
  /\ View(m, At(m)).pos >= MaxTyped
  /\ View(m, At(m)).pos < View(m, At(m)).cap

\* The operator goes on to fill the widget with the character next to the
\* start of the alphabet: scrolls to the character, presses Select and
\* releases it.
FillPins(m) ==
  LET v == View(m, At(m))
      b == IF v.fresh \/ m.obs.select = LOW THEN Released
           ELSE IF v.letter = CharAt(1) THEN SelectHeld
           ELSE DownHeld
  IN Pins(b[1], b[2], b[3], << >>, HIGH, LOW)

\* Buffers may be filled; the candidate stays near the start of the
\* alphabet.
Filled == [Limits EXCEPT !.typed = WIFI_BUFF_SIZE]

FillTick ==
  /\ Room(Machine)
  /\ Tick(FillPins(Machine), Silence, Filled)

\* At the beginning of a text and with the buffer full the operator presses
\* what they like.
NextFill ==
  \/ IdleTick(Typing)
  \/ AuthTick(Typing)
  \/ MenuTick(Typing) /\ ~g'.isLongPressReturnActive
  \/ FillTick
  \/ /\ g.menuState = ADD
     /\ ~Room(Machine)
     /\ RunIn(Typing, Filled)
     /\ ~g'.isLongPressReturnActive
     /\ add'.subState \in {0, 1, 2, 3}
     /\ IF add.subState = 2 THEN obs'.up = HIGH ELSE HandsOff
  \/ /\ g.menuState = SETTINGS
     /\ ~Room(Machine)
     /\ RunIn(Typing, Filled)
     /\ ~g'.isLongPressReturnActive
     /\ cfg'.subState \in {0, 30, 31, 32, 33, 34, 35}
     /\ IF cfg.subState \in {32, 34, 35} THEN obs'.up = HIGH
        ELSE IF cfg.subState = 33 THEN HandsOff
        ELSE IF cfg.subState = 31 THEN obs'.up = HIGH /\ obs'.down = HIGH
        ELSE obs'.down = HIGH

SpecFill == InitWidget /\ [][NextFill]_vars

\* C33 as stated: a confirming press that follows a confirming press in the
\* same widget, with no scroll in between, leaves the buffer as it is and
\* completes the entry.
C33_SecondPressCompletes ==
  [][\A w \in Widgets :
       (Press(w) /\ obs.pressed)
         => /\ View(Machine, w).buf' = View(Machine, w).buf
            /\ StepOf(Machine)' = View(Machine, w).next]_vars

\* C33, amended: a confirming press that follows one that picked a
\* character, with no scroll in between, leaves the buffer as it is and
\* completes the entry; a confirming press that does not follow one, or
\* follows it after a scroll, completes the entry only on the terminator.
C33_PressAfterPickCompletes ==
  [][\A w \in Widgets :
       Press(w) =>
         IF obs.picked
         THEN /\ View(Machine, w).buf' = View(Machine, w).buf
              /\ StepOf(Machine)' = View(Machine, w).next
         ELSE View(Machine, w).letter # TERMINATOR
                => StepOf(Machine)' = StepOf(Machine)]_vars

\* The name of Add User was filled and then completed by a second press
\* right after the pick of its last character.
C33_Witness ==
  /\ g.menuState = ADD
  /\ add.subState = 3
  /\ add.nameCharIndex = MAX_NAME_SIZE - 1
  /\ add.charIndex = 0
  /\ add.okPressCount = 1

\* C34: the text of a widget never grows beyond what its buffer takes; a
\* confirming press on a full buffer leaves the text and its length as
\* they are, and the machine stays in the widget or, on the terminator or
\* after a counted press, goes on to the next step.
C34_FullBufferStops ==
  [][\A w \in Widgets :
       At(Machine) = w =>
         /\ Len(View(Machine, w).buf') <= View(Machine, w).cap
         /\ View(Machine, w).pos' <= View(Machine, w).cap
         /\ (Press(w) /\ View(Machine, w).pos = View(Machine, w).cap)
              => /\ View(Machine, w).buf' = View(Machine, w).buf
                 /\ View(Machine, w).pos' = View(Machine, w).pos
                 /\ StepOf(Machine)' \in {StepOf(Machine), View(Machine, w).next}]_vars

\* The passphrase of a scanned network fills the buffer and a confirming
\* press was made on a candidate other than the terminator.
C34_Witness ==
  /\ At(Machine) = "pass"
  /\ cfg.pwdPos32 = WIFI_BUFF_SIZE - 1
  /\ Len(cfg.passwordBuff) = WIFI_BUFF_SIZE - 1
  /\ cfg.currentLetter32 = CharAt(1)
  /\ obs.pressed
  /\ ~obs.picked

(***************************************************************************)
(* Add User: the add request                                               *)
(***************************************************************************)
\* The admin scans a new tag, enters a name, or none, picks the title and
\* confirms.
Enrolling ==
  Env((IDLE :> Doing({UpSelectHeld}, {}, {}))
      @@ (AUTH :> Doing({Released}, {UID1}, {AdminLine}))
      @@ (MENU :> Doing({Released, SelectHeld}, {}, {}))
      @@ (ADD :> Doing({Released, UpHeld, DownHeld, SelectHeld}, {UID1}, {NotFoundLine})),
      {HIGH}, {LOW})

NextEnrol ==
  \/ IdleTick(Enrolling)
  \/ AuthTick(Enrolling)
  \/ MenuTick(Enrolling) /\ ~g'.isLongPressReturnActive
  \/ /\ AddUserTick(Enrolling)
     /\ ~g'.isLongPressReturnActive
     /\ add'.subState \in {0, 1, 2, 3, 4}

SpecEnrol == Init /\ [][NextEnrol]_vars

\* The lines of the iteration that are add requests.
AddsSent == {i \in 1..Len(io'.tx) : KindOf(io'.tx[i]) = <<"a", "d", "d">>}

\* C35: every add request carries an id that is not empty, a user name
\* that is not empty and the title admin or user, and is sent from the
\* title step of Add User that follows the scan of a tag and the name
\* entry.
C35_AddRequestComplete ==
  [][\A i \in AddsSent :
       /\ g.menuState = ADD
       /\ add.subState = 3
       /\ ExtractValue(io'.tx[i], <<"i", "d">>, MAX_EXTRACT_BUFFER).value # << >>
       /\ ExtractValue(io'.tx[i], <<"u", "n">>, MAX_EXTRACT_BUFFER).value # << >>
       /\ ExtractValue(io'.tx[i], <<"u", "t">>, MAX_EXTRACT_BUFFER).value
            \in {TITLE_ADMIN, TITLE_USER}]_vars

\* The lines of the iteration that are wifi requests.
WifiSent == {i \in 1..Len(io'.tx) : KindOf(io'.tx[i]) = <<"w", "i", "f", "i">>}

\* C36: a wifi request carries exactly the network name that was selected
\* from the list or entered by hand and exactly the passphrase that was
\* entered, whatever the length the widget accepted.
C36_WifiRequestExact ==
  [][\A i \in WifiSent :
       \E ssid \in {cfg.manualSSID, cfg.nets[cfg.selectedNet + 1]} :
         io'.tx[i] = SendWifiJson(ssid, cfg.passwordBuff)]_vars

(***************************************************************************)
(* The double beep                                                         *)
(***************************************************************************)
InitBeep ==
  /\ obs = [InitObs EXCEPT !.probe = "beep"]
  /\ g = InitG
  /\ auth = InitAuth
  /\ scan = InitScan
  /\ add = InitAdd
  /\ del = InitDel
  /\ cfg = InitCfg
  /\ io = InitIo
  /\ rx = << >>
  /\ gw = InitGw(FALSE)

\* Tags are shown in Idle; the host refuses, answers something unknown or
\* lets the user in.
Refusing ==
  Env(IDLE :> Doing({Released}, {UID1}, {FailLine, UnknownLine, InLine}),
      {HIGH}, {LOW})

\* A period between the quick and the slow one.
MidPeriod == 130

Periods == {FastPeriod, MidPeriod, LoopPeriod}

\* While the double beep is on, the iterations follow one another quickly
\* or less so.
BeepQuick ==
  /\ g.menuState = IDLE
  /\ obs.beep # ""
  /\ \E p \in {FastPeriod, MidPeriod} :
       TickAt(Hands(Released), Silence, NoLimits, p)

NextBeep ==
  \/ g.menuState = IDLE /\ RunIn(Refusing, NoLimits)
  \/ BeepQuick

SpecBeep == InitBeep /\ [][NextBeep]_vars

\* C37: the iteration of the trigger starts one tone and the sequence is
\* on; until DOUBLE_BEEP_GAP has passed no tone is started, no iteration
\* takes longer than its period, and the first iteration that begins
\* DOUBLE_BEEP_GAP or more after the trigger starts the second tone; no
\* tone is started after it and the sequence is on until the first
\* iteration that begins DOUBLE_BEEP_TONE or more after the one of the
\* second tone, which ends it.
C37_DoubleBeep ==
  [][IF Refused(Machine, Machine')
     THEN io'.tones = 1 /\ g'.doubleBeepActive
     ELSE CASE obs.beep = "gap" ->
                 /\ io'.tones = (IF obs.sinceTone >= DOUBLE_BEEP_GAP THEN 1 ELSE 0)
                 /\ g'.doubleBeepActive
                 /\ \E p \in Periods :
                      obs'.sinceTone =
                        IF GapOver(obs) THEN Min(p, DOUBLE_BEEP_GAP)
                        ELSE Later(obs.sinceTone, p, DOUBLE_BEEP_GAP)
            [] obs.beep = "tone" ->
                 /\ io'.tones = 0
                 /\ g'.doubleBeepActive <=> obs.sinceTone < DOUBLE_BEEP_TONE
            [] OTHER -> ~g'.doubleBeepActive]_vars

\* The second tone was started and is over: the sequence has ended.
C37_Witness ==
  /\ obs.probe = "beep"
  /\ obs.beep = ""
  /\ scan.subState = 5
  /\ ~g.doubleBeepActive
  /\ g.doubleBeepStage

(***************************************************************************)
(* The link LED                                                            *)
(***************************************************************************)
\* The observer of the link LED counts the time from power-up.
InitLink ==
  /\ obs = [InitObs EXCEPT !.probe = "link", !.sinceLink = 0]
  /\ g = InitG
  /\ auth = InitAuth
  /\ scan = InitScan
  /\ add = InitAdd
  /\ del = InitDel
  /\ cfg = InitCfg
  /\ io = InitIo
  /\ rx = << >>
  /\ gw = InitGw(FALSE)

\* The link comes and goes while tags are shown in Idle and the host stays
\* silent.
LinkComesAndGoes ==
  Env(IDLE :> Doing({Released}, {UID1}, {}), {HIGH}, {LOW, HIGH})

\* While no exchange is on, the iterations follow one another quickly.
LinkQuick ==
  /\ g.menuState = IDLE
  /\ scan.subState = 0
  /\ \E w \in {LOW, HIGH} :
       TickAt(Pins(HIGH, HIGH, HIGH, << >>, HIGH, w), Silence, Limits, FastPeriod)

NextLink ==
  \/ IdleTick(LinkComesAndGoes)
  \/ LinkQuick

SpecLink == InitLink /\ [][NextLink]_vars

\* C38: an iteration that reads the link as up leaves the link LED on; an
\* iteration that reads it as down changes the level of the LED only when
\* more than WIFI_BLINK_PERIOD has passed since the LED last changed level
\* or the link was last read as up.
C38_SolidOrSlowBlink ==
  [][/\ obs'.link = LOW => io'.wifiLed = HIGH
     /\ (obs'.link = HIGH /\ io'.wifiLed # io.wifiLed)
          => obs'.flipAge > WIFI_BLINK_PERIOD]_vars

\* The link is down and the LED has just changed to on.
C38_Witness ==
  /\ obs.probe = "link"
  /\ obs.link = HIGH
  /\ obs.flipAge > WIFI_BLINK_PERIOD
  /\ io.wifiLed = HIGH
  /\ ~g.wifiConnected

(***************************************************************************)
(* Indicators and door: each keeps to its own state                        *)
(***************************************************************************)
BeepState(m) == <<m.g.doubleBeepTimer, m.g.doubleBeepStage, m.g.doubleBeepActive>>
RejectState(m) == <<m.g.rejectLedEndTime, m.io.reject>>
LinkState(m) == <<m.g.wifiTimer, m.g.wifiBlink, m.io.wifiLed>>
DoorState(m) ==
  <<m.g.doorForceUnlock, m.g.doorOpened, m.g.doorLockTimer, m.io.accept>>

IndicatorsAndDoor(m) == <<BeepState(m), RejectState(m), LinkState(m), DoorState(m)>>

\* Users come and go at the door and the link comes and goes.
AtTheGate ==
  Env((IDLE :> Doing({Released, UpSelectHeld}, {UID1}, {InLine, FailLine}))
      @@ (AUTH :> Doing({Released}, {UID1}, {AdminLine})),
      {HIGH, LOW}, {LOW, HIGH})

\* An admin goes through the menu into each of the modes; the door is shut
\* and the link down.
Inside ==
  Env((AUTH :> Doing({Released}, {UID1}, {AdminLine}))
      @@ (MENU :> Doing({Released, UpHeld, SelectHeld}, {}, {}))
      @@ (ADD :> Doing({Released, SelectHeld}, {UID1}, {NotFoundLine}))
      @@ (DELETE :> Doing({Released, SelectHeld}, {UID1}, {FoundLine}))
      @@ (SETTINGS :> Doing({Released, SelectHeld}, {}, {NetsLine})),
      {HIGH}, {HIGH})

NextFrame ==
  \/ /\ g.menuState = IDLE
     /\ RunIn(AtTheGate, Whole)
     /\ obs'.up = LOW => scan.subState = 0
  \/ g.menuState = AUTH /\ RunIn(Inside, Whole)
  \/ g.menuState = MENU /\ RunIn(Inside, Whole) /\ ~g'.isLongPressReturnActive
  \/ /\ g.menuState = ADD
     /\ RunIn(Inside, Whole)
     /\ ~g'.isLongPressReturnActive
     /\ add'.subState \in {0, 1, 2}
  \/ /\ g.menuState = DELETE
     /\ RunIn(Inside, Whole)
     /\ ~g'.isLongPressReturnActive
     /\ del'.subState \in {0, 1, 2}
  \/ /\ g.menuState = SETTINGS
     /\ RunIn(Inside, Whole)
     /\ ~g'.isLongPressReturnActive
     /\ cfg'.subState \in {0, 30, 31}

SpecFrame == Init /\ [][NextFrame]_vars

\* The pin levels put to the handlers.
FramePins ==
  {Pins(b[1], b[2], b[3], c, HIGH, LOW) :
     b \in {Released, UpHeld, DownHeld, SelectHeld, UpSelectHeld},
     c \in {<< >>, UID1}}

\* The time a handler may take: none, the pause of a cancelled scan, the
\* time a message is shown.
Pauses == {0, CANCEL_DELAY, SCAN_DISPLAY_TIME}

\* The handlers of the modes other than Idle, handleInput before them.
Handled(m, in) ==
  Dispatch(IF m.g.menuState > 0 - 1 THEN HandleInput(m, in) ELSE m, in)

\* C39: the trigger and the update of the double beep leave the reject
\* LED, the link blink and the door as they are; the reject pulse leaves
\* the double beep and the door as they are; the unlock and the door update
\* leave the double beep, the reject LED and the link blink as they are; in
\* the modes other than Idle, handleInput and the handler of the mode, a
\* switch of mode included, do to the indicators and the door nothing but
\* let time pass.
C39_OwnStateOnly ==
  /\ \A f \in {BeepTwice(Machine), DoubleBeepUpdate(Machine)} :
       /\ RejectState(f) = RejectState(Machine)
       /\ LinkState(f) = LinkState(Machine)
       /\ DoorState(f) = DoorState(Machine)
  /\ BeepState(PulseReject(Machine)) = BeepState(Machine)
  /\ DoorState(PulseReject(Machine)) = DoorState(Machine)
  /\ \A f \in {PulseAccept(Machine), DoorUpdate(Machine, HIGH), DoorUpdate(Machine, LOW)} :
       /\ BeepState(f) = BeepState(Machine)
       /\ RejectState(f) = RejectState(Machine)
       /\ LinkState(f) = LinkState(Machine)
  /\ g.menuState # IDLE =>
       \A in \in FramePins :
         \E d \in Pauses :
           IndicatorsAndDoor(Handled(Machine, in)) = IndicatorsAndDoor(Advance(Machine, d))

\* An admin is in the menu while the door, unlocked and seen open, is
\* about to be locked again, the link is down and its LED is off.
C39_Witness ==
  /\ g.menuState = MENU
  /\ g.doorForceUnlock
  /\ g.doorOpened
  /\ g.doorLockTimer # NoStamp
  /\ io.accept = HIGH
  /\ ~g.wifiConnected
  /\ io.wifiLed = LOW

(***************************************************************************)
(* The gateway between the server and the terminal                         *)
(***************************************************************************)
\* The inner messages the server relays, as lists of members.
Inners ==
  << << <<KeyRslt, <<"a", "d", "m", "i", "n">>>> >>,
     << <<<<"n", "m">>, <<"A", "l">>>>, <<<<"a", "c", "t">>, <<"I", "N">>>> >> >>

\* The senders a text message names; "" is a message with no from member.
Senders == {"db_client", "db_clients", "web_client", ""}
SenderName(f) ==
  IF f = "db_client" THEN target_name
  ELSE IF f = "db_clients" THEN target_name \o <<"s">>
  ELSE <<"w", "e", "b", "_", "c", "l", "i", "e", "n", "t">>

\* What a handler of the gateway can be given: a text message from a sender,
\* with one of the inner messages or none (msg = 0), laid out with or
\* without spaces, whole or cut short of its last byte; or a command line.
Heard(kind) ==
  [kind |-> kind, from |-> "", msg |-> 0, spaced |-> FALSE, cut |-> FALSE,
   line |-> << >>, owed |-> << >>]
TextMessages ==
  {[Heard("text") EXCEPT !.from = f, !.msg = i, !.spaced = sp, !.cut = c] :
     f \in Senders, i \in 0..Len(Inners), sp \in BOOLEAN, c \in BOOLEAN}

\* The text of a list of members as a server writes it.
RECURSIVE MembersText(_, _)
MembersText(ps, spaced) ==
  IF ps = << >> THEN << >>
  ELSE Quoted(Head(ps)[1]) \o <<":">> \o (IF spaced THEN <<" ">> ELSE << >>)
         \o Quoted(Head(ps)[2])
         \o (IF Len(ps) > 1 THEN <<",">> \o (IF spaced THEN <<" ">> ELSE << >>)
             ELSE << >>)
         \o MembersText(Tail(ps), spaced)
InnerText(i, spaced) == <<"{">> \o MembersText(Inners[i], spaced) \o <<"}">>

\* The payload of a text message.
Payload(h) ==
  LET gap == IF h.spaced THEN <<" ">> ELSE << >>
      from == IF h.from = "" THEN << >>
              ELSE Quoted(<<"f", "r", "o", "m">>) \o <<":">> \o gap
                     \o Quoted(SenderName(h.from))
      msg == IF h.msg = 0 THEN << >>
             ELSE Quoted(<<"m", "s", "g">>) \o <<":">> \o gap
                    \o InnerText(h.msg, h.spaced)
      whole == <<"{">> \o from
                 \o (IF h.from # "" /\ h.msg # 0 THEN <<",">> \o gap ELSE << >>)
                 \o msg \o <<"}">>
  IN IF h.cut THEN Take(whole, Len(whole) - 1) ELSE whole

\* The lines the terminal writes: its requests to the server, its two
\* requests to the gateway, and a line that is no JSON.
TerminalLines ==
  {SendSerialJson(<<"s", "c", "a", "n">>, UidHex(UID1), NoText, NoText, NoText, NoText),
   SendSerialJson(<<"a", "u", "t", "h">>, UidHex(UID1), NoText, NoText, NoText, NoText),
   SendSerialJson(MdScanWifi, NoText, NoText, NoText, NoText, NoText),
   SendWifiJson(<<"n", "e", "t">>, <<"p", "w">>),
   SendWifiJson(<< >>, << >>),
   <<"o", "k", "\r", "\n">>}

\* The lists a scan makes of the networks in range.
NetLists == {<< >>, <<"n", "e", "t", ";", "l", "a", "b">>}

\* The most bytes that wait unread on the line from the terminal.
MaxSerial == 44
\* The terminal may be read while it is half way through a line.
SplitAt == 9

\* The outputs of a handler start empty.
GwFresh(w) == [w EXCEPT !.written = << >>, !.sent = << >>]

\* The command line that the next pass of loop() completes, if any.
Given(w) ==
  LET ends == {i \in 1..Len(w.serial) : w.serial[i] = "\n"}
  IN IF ends = {} THEN << >>
     ELSE w.arduinoCommandBuffer \o SubSeq(w.serial, 1, First(ends))

Terminal == <<g, auth, scan, add, del, cfg, io, rx, obs>>

\* The server's text message reaches webSocketEvent.  The handler reads
\* nothing of the line from the terminal, which is quiet here.
TextArrives ==
  /\ gw.serial = << >> /\ gw.arduinoCommandBuffer = << >> /\ gw.heard.owed = << >>
  /\ \E h \in TextMessages :
       gw' = [WebSocketText(GwFresh(gw), Payload(h)) EXCEPT !.heard = h]
  /\ UNCHANGED Terminal

\* The WebSocket connects while WiFi is up.
SocketConnects ==
  /\ gw.prevWiFiStatus
  /\ ~gw.isConnected
  /\ gw' = [WebSocketConnected(GwFresh(gw)) EXCEPT
              !.heard = [Heard("connected") EXCEPT !.owed = gw.heard.owed]]
  /\ UNCHANGED Terminal

\* The WebSocket reports that it is not connected.
SocketDisconnects ==
  /\ gw' = [WebSocketDisconnected(GwFresh(gw)) EXCEPT
              !.heard = [Heard("disconnected") EXCEPT !.owed = gw.heard.owed]]
  /\ UNCHANGED Terminal

\* The terminal writes a line, or the first bytes of one.
LineArrives ==
  /\ gw.heard.owed = << >>
  /\ \E line \in TerminalLines : \E k \in {SplitAt, Len(line)} :
       /\ Len(gw.serial) + Len(line) <= MaxSerial
       /\ gw' = [GwFresh(gw) EXCEPT
                   !.serial = @ \o Take(line, k),
                   !.heard = [Heard("line") EXCEPT
                                !.owed = SubSeq(line, Min(k, Len(line)) + 1, Len(line))]]
  /\ UNCHANGED Terminal

\* The terminal writes the rest of its line.
RestArrives ==
  /\ gw.heard.owed # << >>
  /\ gw' = [GwFresh(gw) EXCEPT !.serial = @ \o gw.heard.owed, !.heard = Heard("line")]
  /\ UNCHANGED Terminal

\* One pass of the gateway's loop().
GatewayLoops ==
  /\ \E joins \in BOOLEAN, nets \in NetLists, cur \in BOOLEAN :
       gw' = [GwLoop(GwFresh(gw), joins, nets, cur) EXCEPT
                !.heard = [Heard("loop") EXCEPT !.line = Given(gw),
                                                !.owed = gw.heard.owed]]
  /\ UNCHANGED Terminal

InitGateway ==
  /\ obs = InitObs
  /\ g = InitG
  /\ auth = InitAuth
  /\ scan = InitScan
  /\ add = InitAdd
  /\ del = InitDel
  /\ cfg = InitCfg
  /\ io = InitIo
  /\ rx = << >>
  /\ gw \in {InitGw(FALSE), InitGw(TRUE)}

NextGateway ==
  \/ TextArrives
  \/ SocketConnects
  \/ SocketDisconnects
  \/ LineArrives
  \/ RestArrives
  \/ GatewayLoops

SpecGateway == InitGateway /\ [][NextGateway]_vars

\* What a text message puts on the line to the terminal.
Relayed(h) ==
  IF h.from = "db_client" /\ h.msg # 0 /\ ~h.cut
  THEN InnerText(h.msg, FALSE) \o <<"\n">>
  ELSE << >>

\* C40: a WebSocket text message writes to the terminal the inner msg of a
\* message from db_client and one newline, and nothing when the sender is
\* another, the msg is missing or the text does not parse; a wifi or
\* scan_wifi command of the terminal gets its reply from the gateway and
\* nothing is sent to the server for it.
C40_RelaysOnlyDbClient ==
  /\ gw.heard.kind = "text" =>
       gw.written = Relayed(gw.heard) /\ gw.sent = << >>
  /\ gw.heard.kind = "loop" /\ KindOf(gw.heard.line) \in {MdWifi, MdScanWifi} =>
       gw.sent = << >> /\ KindOf(gw.written) = KindOf(gw.heard.line)

C40_Witness ==
  /\ gw.heard.kind = "text"
  /\ gw.heard.from = "db_client"
  /\ gw.heard.msg = 2
  /\ gw.heard.spaced
  /\ gw.isConnected
  /\ gw.written = InnerText(2, FALSE) \o <<"\n">>

=============================================================================
